---------------------------- MODULE Spec2Model ----------------------------
(***************************************************************************)
(* Extraction-and-matching core of the cold-email generator:               *)
(*   rag_system.py     RAGSystem.get_skill_matches, get_relevant_experience *)
(*   utils.py          clean_text, extract_skills_from_text                *)
(*   resume_parser.py  ResumeParser._parse_resume_text and its helpers     *)
(*   job_extractor.py  JobExtractor.extract_job_info and its heuristics    *)
(*   utils.py          extract_company_name_from_url, validate_url,        *)
(*                     validate_file_upload                                *)
(*   app.py            main: the skill match panel, the process and the    *)
(*                     generate button, the e-mail display                 *)
(*                                                                         *)
(* A Python str is a sequence of one-character strings.  A dict is a       *)
(* function whose DOMAIN is the set of keys present.  match_percentage is  *)
(* kept in hundredths of a percent (5000 stands for 50.0).                 *)
(***************************************************************************)
EXTENDS Integers, Sequences, FiniteSets, TLC

VARIABLES
    pc,                   \* which call is under way / has returned
    job_skills,           \* get_skill_matches: argument job_skills
    resume_skills,        \* get_skill_matches: argument resume_skills
    skill_matches,        \* get_skill_matches: returned dict
    resume_experience,    \* resume_data['experience'], a list of dicts (mutable)
    job_requirements,     \* get_relevant_experience: argument job_requirements
    relevant_experience,  \* get_relevant_experience: returned list
    resume_text,          \* _parse_resume_text: argument text
    resume_data,          \* _parse_resume_text: returned dict
    skills_text,          \* extract_skills_from_text: argument text
    found_skills,         \* extract_skills_from_text(text)
    found_skills_doubled, \* extract_skills_from_text(text + text)
    clean_input,          \* clean_text: argument text
    clean_output,         \* clean_text: returned str
    job_page,             \* extract_job_info: the parsed page (soup)
    job_url,              \* extract_job_info: argument url
    job_info,             \* extract_job_info: the job_info dict
    job_error,            \* extract_job_info: where the raised exception arose
    uploaded_file,        \* validate_file_upload: argument uploaded_file
    file_validation,      \* validate_file_upload: returned dict
    session_state,        \* app.main: st.session_state
    rendered,             \* app.main: the last script run and what it displayed
    panel,                \* app.main: the figures of the skill match panel
    sections_text,        \* _extract_sections: argument text
    extracted_sections,   \* _extract_sections: returned dict
    entry_kind,           \* which of _extract_education / _experience / _projects runs
    entry_lines,          \* entry state machine: lines = text.split('\n')
    entry_index,          \* entry state machine: lines already seen by the loop
    entry_state,          \* entry state machine: the list and the current record
    entry_result          \* entry state machine: returned list

vars == <<pc, job_skills, resume_skills, skill_matches, resume_experience,
          job_requirements, relevant_experience, resume_text, resume_data,
          skills_text, found_skills, found_skills_doubled, clean_input,
          clean_output, job_page, job_url, job_info, job_error, uploaded_file,
          file_validation, session_state, rendered, panel, sections_text,
          extracted_sections, entry_kind, entry_lines, entry_index, entry_state,
          entry_result>>

matchVars  == <<job_skills, resume_skills, skill_matches>>
rankVars   == <<resume_experience, job_requirements, relevant_experience>>
resumeVars == <<resume_text, resume_data>>
skillVars  == <<skills_text, found_skills, found_skills_doubled>>
cleanVars  == <<clean_input, clean_output>>
jobVars    == <<job_page, job_url, job_info, job_error>>
appVars    == <<uploaded_file, file_validation, session_state, rendered, panel>>
sectionVars == <<sections_text, extracted_sections>>
entryVars  == <<entry_kind, entry_lines, entry_index, entry_state, entry_result>>

\* value of a variable that the operation under study does not use
None == "None"

MatchUnused  == job_skills = None /\ resume_skills = None /\ skill_matches = None
RankUnused   == resume_experience = None /\ job_requirements = None
                /\ relevant_experience = None
ResumeUnused == resume_text = None /\ resume_data = None
SkillsUnused == skills_text = None /\ found_skills = None
                /\ found_skills_doubled = None
CleanUnused  == clean_input = None /\ clean_output = None
JobUnused    == job_page = None /\ job_url = None /\ job_info = None
                /\ job_error = None
AppUnused    == uploaded_file = None /\ file_validation = None
                /\ session_state = None /\ rendered = None /\ panel = None
SectionUnused == sections_text = None /\ extracted_sections = None
EntryUnused  == entry_kind = None /\ entry_lines = None /\ entry_index = None
                /\ entry_state = None /\ entry_result = None

---------------------------------------------------------------------------
(* Python str primitives                                                   *)

UPPER == <<"A","B","C","D","E","F","G","H","I","J","K","L","M",
           "N","O","P","Q","R","S","T","U","V","W","X","Y","Z">>
LOWER == <<"a","b","c","d","e","f","g","h","i","j","k","l","m",
           "n","o","p","q","r","s","t","u","v","w","x","y","z">>
DIGITS == {"0","1","2","3","4","5","6","7","8","9"}

\* upper-case letter -> lower-case letter
LowerTable ==
    [c \in {UPPER[i] : i \in 1..Len(UPPER)} |->
        LOWER[CHOOSE i \in 1..Len(UPPER) : UPPER[i] = c]]

\* str.lower() on one character
LowerChar(c) == IF c \in DOMAIN LowerTable THEN LowerTable[c] ELSE c

\* str.lower()
StrLower(s) == [i \in 1..Len(s) |-> LowerChar(s[i])]

\* the characters the regex class \s and str.strip()/str.split() treat as whitespace
IsSpace(c) == c \in {" ", "\n", "\t", "\r"}

\* the regex class \w
WordChars ==
    {UPPER[i] : i \in 1..Len(UPPER)} \cup {LOWER[i] : i \in 1..Len(LOWER)}
    \cup DIGITS \cup {"_"}

IsWordChar(c) == c \in WordChars

\* str.lstrip(): from the first character that is not whitespace
LStrip(s) ==
    LET keep == {i \in 1..Len(s) : ~IsSpace(s[i])}
    IN  IF keep = {} THEN <<>>
        ELSE SubSeq(s, CHOOSE i \in keep : \A j \in keep : i <= j, Len(s))

\* str.rstrip(): up to the last character that is not whitespace
RStrip(s) ==
    LET keep == {i \in 1..Len(s) : ~IsSpace(s[i])}
    IN  IF keep = {} THEN <<>>
        ELSE SubSeq(s, 1, CHOOSE i \in keep : \A j \in keep : i >= j)

\* str.strip()
Strip(s) == RStrip(LStrip(s))

\* Python's  a in b  on two strings
IsSubstring(a, b) ==
    \E i \in 0..(Len(b) - Len(a)) : SubSeq(b, i + 1, i + Len(a)) = a

\* the pieces of s between the separator positions seps (a set of indices),
\* in order: str.split(sep) for a one-character separator
PiecesBetween(s, seps) ==
    LET cuts == seps \cup {0, Len(s) + 1}
        nth(k) == CHOOSE c \in cuts : Cardinality({d \in cuts : d < c}) = k
    IN  [k \in 1..(Cardinality(cuts) - 1) |->
            SubSeq(s, nth(k - 1) + 1, nth(k) - 1)]

\* str.split(): the maximal runs of non-whitespace characters, in order
Split(s) ==
    SelectSeq(PiecesBetween(s, {i \in 1..Len(s) : IsSpace(s[i])}),
              LAMBDA piece : piece # <<>>)

\* the set of elements of a list
Range(seq) == {seq[i] : i \in 1..Len(seq)}

\* all lists of length at most n over the set S
SeqsUpTo(S, n) == UNION {[1..k -> S] : k \in 0..n}

---------------------------------------------------------------------------
(* RAGSystem.get_skill_matches                                             *)

\* skill.lower().strip() for each skill
NormalizeSkills(skills) == [i \in 1..Len(skills) |-> Strip(StrLower(skills[i]))]

\* only  job_skill in resume_skill : the second direction forgotten
SkillHitOneWay(job_skill, resume_skill) == IsSubstring(job_skill, resume_skill)

\* job_skill in resume_skill or resume_skill in job_skill
SkillHit(job_skill, resume_skill) ==
    IsSubstring(job_skill, resume_skill) \/ IsSubstring(resume_skill, job_skill)

\* the inner loop without its break: one append per résumé skill that hits
RECURSIVE InnerScanNoBreak(_, _, _)
InnerScanNoBreak(job_skill, resume_norm, k) ==
    IF k > Len(resume_norm) THEN <<>>
    ELSE (IF SkillHit(job_skill, resume_norm[k]) THEN <<job_skill>> ELSE <<>>)
         \o InnerScanNoBreak(job_skill, resume_norm, k + 1)

\* the inner loop: what one job skill appends to matched_skills, scanning the
\* résumé skills from index k and stopping at the first hit
RECURSIVE InnerScan(_, _, _)
InnerScan(job_skill, resume_norm, k) ==
    IF k > Len(resume_norm) THEN <<>>
    ELSE IF SkillHit(job_skill, resume_norm[k]) THEN <<job_skill>>
    ELSE InnerScan(job_skill, resume_norm, k + 1)

\* the outer loop: matched_skills built from job skill i onwards
RECURSIVE MatchedFrom(_, _, _)
MatchedFrom(job_norm, resume_norm, i) ==
    IF i > Len(job_norm) THEN <<>>
    ELSE InnerScan(job_norm[i], resume_norm, 1)
         \o MatchedFrom(job_norm, resume_norm, i + 1)

\* [skill for skill in job_skills_normalized if skill not in matched_skills]
MissingSkills(job_norm, matched) ==
    SelectSeq(job_norm, LAMBDA skill : \A k \in 1..Len(matched) : matched[k] # skill)

\* Python round(x, 2) of the exact ratio num/den, in hundredths: half to even
RoundHundredths(num, den) ==
    LET q == (100 * num) \div den
        r == (100 * num) % den
    IN  IF 2 * r < den THEN q
        ELSE IF 2 * r > den THEN q + 1
        ELSE IF q % 2 = 0 THEN q ELSE q + 1

\* the ratio cut to 2 decimals instead of rounded
MatchPercentageTruncated(n_matched, n_job) == (10000 * n_matched) \div n_job

\* len(matched) // len(job) * 100 : integer division before scaling
MatchPercentageFloorDiv(n_matched, n_job) == 10000 * (n_matched \div n_job)

\* round((len(matched) / len(job)) * 100, 2), in hundredths
MatchPercentage(n_matched, n_job) == RoundHundredths(100 * n_matched, n_job)

\* the dict get_skill_matches returns
GetSkillMatches(jobs, resumes) ==
    IF jobs = <<>>
    THEN [matched_skills |-> <<>>, missing_skills |-> <<>>, match_percentage |-> 0]
    ELSE LET job_norm    == NormalizeSkills(jobs)
             resume_norm == NormalizeSkills(resumes)
             matched     == MatchedFrom(job_norm, resume_norm, 1)
         IN  [matched_skills   |-> matched,
              missing_skills   |-> MissingSkills(job_norm, matched),
              match_percentage |-> MatchPercentage(Len(matched), Len(job_norm))]

\* bounds on the argument lists
MaxJobSkills == 3
MaxResumeSkills == 2

\* skill strings the arguments are drawn from:
\*   "", "a", "A ", "ab", " B", "c"
SkillPool ==
    { <<>>, <<"a">>, <<"A", " ">>, <<"a", "b">>, <<" ", "B">>, <<"c">> }

InitMatch ==
    /\ pc = "match"
    /\ job_skills \in SeqsUpTo(SkillPool, MaxJobSkills)
    /\ resume_skills \in SeqsUpTo(SkillPool, MaxResumeSkills)
    /\ skill_matches = None
    /\ RankUnused /\ ResumeUnused /\ SkillsUnused /\ CleanUnused
    /\ JobUnused /\ AppUnused
    /\ SectionUnused /\ EntryUnused

CallGetSkillMatches ==
    /\ pc = "match"
    /\ skill_matches' = GetSkillMatches(job_skills, resume_skills)
    /\ pc' = "matched"
    /\ UNCHANGED <<job_skills, resume_skills, rankVars, resumeVars, skillVars, cleanVars,
                 jobVars, appVars, sectionVars,
                   entryVars>>

NextMatch == CallGetSkillMatches

SpecMatch == InitMatch /\ [][NextMatch]_vars

---------------------------------------------------------------------------
(* Claims about get_skill_matches, checked under SpecMatch                 *)

JobNorm    == NormalizeSkills(job_skills)
ResumeNorm == NormalizeSkills(resume_skills)
Abs(x)     == IF x < 0 THEN -x ELSE x

\* some normalized résumé skill contains j or is contained in j
HasCounterpart(j) ==
    \E k \in 1..Len(ResumeNorm) :
        IsSubstring(j, ResumeNorm[k]) \/ IsSubstring(ResumeNorm[k], j)

\* C1: matched_skills is exactly the lower-cased, trimmed job-skill list
\* filtered, in job-list order and keeping duplicates, to the job skills that
\* are a substring of, or contain as a substring, some normalized résumé skill.
C1_MatchedIsFilteredJobList ==
    pc = "matched" =>
        skill_matches.matched_skills = SelectSeq(JobNorm, HasCounterpart)

\* job ["A ", "c", "a"] against résumé ["ab"]: "a" is kept twice, "c" is dropped
C1_Witness ==
    /\ pc = "matched"
    /\ job_skills = << <<"A", " ">>, <<"c">>, <<"a">> >>
    /\ resume_skills = << <<"a", "b">> >>
    /\ skill_matches.matched_skills = << <<"a">>, <<"a">> >>

\* C2: match_percentage is 0, with empty matched and missing lists, when the
\* job skill list is empty, whatever the résumé list; otherwise it is
\* 100 * |matched| / |job skills| rounded to 2 decimals (the hundredth nearest
\* to the exact ratio); it always lies in [0, 100].
C2_PercentageValue ==
    pc = "matched" =>
        LET p == skill_matches.match_percentage
            m == Len(skill_matches.matched_skills)
            n == Len(job_skills)
        IN  /\ p \in 0..10000
            /\ n = 0 => /\ p = 0
                        /\ skill_matches.matched_skills = <<>>
                        /\ skill_matches.missing_skills = <<>>
            /\ n > 0 => 2 * Abs(p * n - 10000 * m) <= n

\* two of three job skills matched: 66.67
C2_Witness ==
    /\ pc = "matched"
    /\ Len(job_skills) = 3
    /\ Len(skill_matches.matched_skills) = 2
    /\ skill_matches.match_percentage = 6667

\* C3 as stated: match_percentage is 0 if and only if the job skill list is empty.
C3_ZeroIffJobListEmpty ==
    pc = "matched" => (skill_matches.match_percentage = 0 <=> job_skills = <<>>)

\* C3 amended: match_percentage is 0 whenever the job skill list is empty, and
\* in general it is 0 if and only if no job skill is matched (for job lists of
\* fewer than 20000 skills, where rounding cannot turn a non-zero ratio into 0).
C3_ZeroIffNothingMatched ==
    pc = "matched" /\ Len(job_skills) < 20000 =>
        /\ job_skills = <<>> => skill_matches.match_percentage = 0
        /\ skill_matches.match_percentage = 0
               <=> skill_matches.matched_skills = <<>>

\* a non-empty job list none of whose skills is matched: 0.0
C3_Witness ==
    /\ pc = "matched"
    /\ job_skills # <<>>
    /\ resume_skills # <<>>
    /\ skill_matches.matched_skills = <<>>
    /\ skill_matches.match_percentage = 0

\* C4: missing_skills is the normalized job-skill list with every string that
\* occurs in matched_skills removed, order preserved; matched and missing are
\* disjoint, every normalized job skill is in exactly one of them, and
\* |matched| + |missing| = |job skills|.
C4_MissingIsComplement ==
    pc = "matched" =>
        LET matched == skill_matches.matched_skills
            missing == skill_matches.missing_skills
        IN  /\ missing = SelectSeq(JobNorm, LAMBDA s : s \notin Range(matched))
            /\ Range(matched) \cap Range(missing) = {}
            /\ Range(matched) \cup Range(missing) = Range(JobNorm)
            /\ Len(matched) + Len(missing) = Len(job_skills)

\* job ["a", "c"] against résumé ["a"]: missing ["c"], 50.0
C4_Witness ==
    /\ pc = "matched"
    /\ job_skills = << <<"a">>, <<"c">> >>
    /\ resume_skills = << <<"a">> >>
    /\ skill_matches.missing_skills = << <<"c">> >>
    /\ skill_matches.match_percentage = 5000

---------------------------------------------------------------------------
(* RAGSystem.get_relevant_experience                                       *)

\* exp.get(key) is truthy: the key is present and its string is not empty
HasText(exp, key) == key \in DOMAIN exp /\ exp[key] # <<>>

\* any(keyword in text_lower for keyword in requirements_lower.split()),
\* keywords being requirements_lower.split()
AnyKeywordIn(keywords, text_lower) ==
    \E k \in 1..Len(keywords) : IsSubstring(keywords[k], text_lower)

\* relevance_score of one entry after both checks
RelevanceScore(keywords, exp) ==
    (IF HasText(exp, "title") /\ AnyKeywordIn(keywords, StrLower(exp["title"]))
     THEN 2 ELSE 0)
    + (IF HasText(exp, "description")
          /\ AnyKeywordIn(keywords, StrLower(exp["description"]))
       THEN 1 ELSE 0)

\* exp['relevance_score'] = relevance_score
SetScore(exp, score) ==
    [k \in DOMAIN exp \cup {"relevance_score"} |->
        IF k = "relevance_score" THEN score ELSE exp[k]]

\* the test  relevance_score >= 0 : entries of score 0 are kept too
IsRelevantOrZero(score) == score >= 0

\* if relevance_score > 0
IsRelevant(score) == score > 0

\* the for loop: for each entry, the dict as the iteration leaves it (the
\* key relevance_score set in place when the entry is relevant) and whether
\* it was appended to relevant_experience
RankLoop(requirements, experience) ==
    LET keywords == Split(StrLower(requirements))
    IN  [i \in 1..Len(experience) |->
            LET score == RelevanceScore(keywords, experience[i])
            IN  IF IsRelevant(score)
                THEN [exp |-> SetScore(experience[i], score), appended |-> TRUE]
                ELSE [exp |-> experience[i], appended |-> FALSE]]

\* resume_experience after the call
ExperienceAfter(loop) == [i \in 1..Len(loop) |-> loop[i].exp]

\* relevant_experience after the loop: the appended dicts, in list order
RelevantEntries(loop) ==
    LET kept == SelectSeq(loop, LAMBDA it : it.appended)
    IN  [i \in 1..Len(kept) |-> kept[i].exp]

\* x.get('relevance_score', 0)
SortKey(exp) == IF "relevance_score" \in DOMAIN exp THEN exp["relevance_score"] ELSE 0

\* an insertion that puts x before the entries of equal key
RECURSIVE InsertBeforeEqual(_, _)
InsertBeforeEqual(sorted, x) ==
    IF sorted = <<>> THEN <<x>>
    ELSE IF SortKey(Head(sorted)) > SortKey(x)
         THEN <<Head(sorted)>> \o InsertBeforeEqual(Tail(sorted), x)
         ELSE <<x>> \o sorted

\* x placed into a list sorted by key descending, after the entries of equal key
RECURSIVE InsertByScore(_, _)
InsertByScore(sorted, x) ==
    IF sorted = <<>> THEN <<x>>
    ELSE IF SortKey(Head(sorted)) >= SortKey(x)
         THEN <<Head(sorted)>> \o InsertByScore(Tail(sorted), x)
         ELSE <<x>> \o sorted

\* list.sort(key=..., reverse=True): descending by key and stable
RECURSIVE SortInto(_, _)
SortInto(sorted, rest) ==
    IF rest = <<>> THEN sorted
    ELSE SortInto(InsertByScore(sorted, Head(rest)), Tail(rest))

SortByScoreDesc(entries) == SortInto(<<>>, entries)

\* relevant_experience[:3]
FirstThree(entries) ==
    SubSeq(entries, 1, IF Len(entries) < 3 THEN Len(entries) ELSE 3)

\* the list get_relevant_experience returns, loop being the for loop's outcome
RankedResult(loop) == FirstThree(SortByScoreDesc(RelevantEntries(loop)))

\* bound on the number of experience entries of a résumé
MaxExperience == 4

\* experience entries as the résumé parser builds them: dicts with some of
\* the keys title, description, period
\*   {title: "Py Dev", description: "py x"}   {title: "Py"}
\*   {description: "use py"}   {title: "db", description: "z"}
\*   {title: "", description: "DB py"}   {period: "2020"}
ExperiencePool ==
    { [title |-> <<"P", "y", " ", "D", "e", "v">>, description |-> <<"p", "y", " ", "x">>],
      [title |-> <<"P", "y">>],
      [description |-> <<"u", "s", "e", " ", "p", "y">>],
      [title |-> <<"d", "b">>, description |-> <<"z">>],
      [title |-> <<>>, description |-> <<"D", "B", " ", "p", "y">>],
      [period |-> <<"2", "0", "2", "0">>] }

\* requirement texts:  "",  "PY",  "db  Py",  "z"
RequirementsPool ==
    { <<>>, <<"P", "Y">>, <<"d", "b", " ", " ", "P", "y">>, <<"z">> }

InitRank ==
    /\ pc = "rank"
    /\ resume_experience \in SeqsUpTo(ExperiencePool, MaxExperience)
    /\ job_requirements = None
    /\ relevant_experience = None
    /\ MatchUnused /\ ResumeUnused /\ SkillsUnused /\ CleanUnused
    /\ JobUnused /\ AppUnused
    /\ SectionUnused /\ EntryUnused

\* one call get_relevant_experience(requirements, resume_data['experience']);
\* the same résumé is ranked again on every later generation
CallGetRelevantExperience ==
    /\ pc \in {"rank", "ranked"}
    /\ \E requirements \in RequirementsPool :
        /\ job_requirements' = requirements
        /\ IF resume_experience = <<>>
           THEN /\ relevant_experience' = <<>>
                /\ UNCHANGED resume_experience
           ELSE LET loop == RankLoop(requirements, resume_experience)
                IN  /\ relevant_experience' = RankedResult(loop)
                    /\ resume_experience' = ExperienceAfter(loop)
    /\ pc' = "ranked"
    /\ UNCHANGED <<matchVars, resumeVars, skillVars, cleanVars,
                 jobVars, appVars, sectionVars,
                   entryVars>>

NextRank == CallGetRelevantExperience

SpecRank == InitRank /\ [][NextRank]_vars

---------------------------------------------------------------------------
(* Claims about get_relevant_experience, checked under SpecRank            *)

\* the whitespace-separated tokens of s: its maximal whitespace-free runs
TokensOf(s) ==
    { SubSeq(s, i, j) : <<i, j>> \in
        { ij \in (1..Len(s)) \X (1..Len(s)) :
            /\ ij[1] <= ij[2]
            /\ \A k \in ij[1]..ij[2] : ~IsSpace(s[k])
            /\ ij[1] = 1 \/ IsSpace(s[ij[1] - 1])
            /\ ij[2] = Len(s) \/ IsSpace(s[ij[2] + 1]) } }

\* the text of a key, the empty string when the key is absent
TextOf(exp, key) == IF key \in DOMAIN exp THEN exp[key] ELSE <<>>

ContainsToken(text) ==
    \E tok \in TokensOf(StrLower(job_requirements)) :
        IsSubstring(tok, StrLower(text))

\* the score of an entry for the requirements text of the last call
ScoreNow(exp) ==
    (IF ContainsToken(TextOf(exp, "title")) THEN 2 ELSE 0)
    + (IF ContainsToken(TextOf(exp, "description")) THEN 1 ELSE 0)

WithScore(k) == SelectSeq(resume_experience, LAMBDA exp : ScoreNow(exp) = k)

\* C5: the result has at most 3 entries and contains no entry whose score
\* for this call is 0.
C5_AtMostThreeNoneZero ==
    pc = "ranked" =>
        /\ Len(relevant_experience) <= 3
        /\ \A i \in 1..Len(relevant_experience) :
               ScoreNow(relevant_experience[i]) > 0

\* four entries score above 0 in this call, three are returned
C5_Witness ==
    /\ pc = "ranked"
    /\ Len(WithScore(3)) + Len(WithScore(2)) + Len(WithScore(1)) = 4
    /\ Len(relevant_experience) = 3

\* C6: an entry scores 2 if its lower-cased title contains a whitespace-
\* separated token of the lower-cased requirements text, plus 1 if its
\* lower-cased description does; the result is the entries of score > 0
\* sorted by score descending, equal scores in input order, cut to 3.
C6_RankedByScoreStable ==
    pc = "ranked" =>
        LET ranked == WithScore(3) \o WithScore(2) \o WithScore(1)
        IN  /\ relevant_experience =
                   SubSeq(ranked, 1, IF Len(ranked) < 3 THEN Len(ranked) ELSE 3)
            /\ \A i \in 1..Len(relevant_experience) :
                   relevant_experience[i]["relevance_score"]
                       = ScoreNow(relevant_experience[i])

\* requirements "db  Py" against entries scoring 1, 2, 0, 2: the two entries
\* of score 2 differ and come first in input order, then the entry of score 1
C6_Witness ==
    /\ pc = "ranked"
    /\ job_requirements = <<"d", "b", " ", " ", "P", "y">>
    /\ Len(resume_experience) = 4
    /\ ScoreNow(resume_experience[1]) = 1
    /\ ScoreNow(resume_experience[2]) = 2
    /\ ScoreNow(resume_experience[3]) = 0
    /\ ScoreNow(resume_experience[4]) = 2
    /\ resume_experience[2] # resume_experience[4]
    /\ relevant_experience =
           <<resume_experience[2], resume_experience[4], resume_experience[1]>>

\* C20: get_relevant_experience leaves the résumé it is given unchanged:
\* after the call every experience entry has exactly the fields and values
\* it had before the call.
C20_ResumeExperienceUnchanged ==
    [][resume_experience' = resume_experience]_vars

---------------------------------------------------------------------------
(* utils.clean_text                                                        *)

\* re.sub(r'\s+', ' ', text): every maximal run of whitespace becomes one
\* space: its first character is replaced by ' ', its other characters go
CollapseWhitespace(text) ==
    LET replaced ==
            [i \in 1..Len(text) |->
                IF ~IsSpace(text[i]) THEN text[i]
                ELSE IF i = 1 \/ ~IsSpace(text[i - 1]) THEN " "
                ELSE ""]
    IN  SelectSeq(replaced, LAMBDA c : c # "")

\* the punctuation the second pattern keeps:  . , ! ? : ; - ( )
KeptPunctuation == {".", ",", "!", "?", ":", ";", "-", "(", ")"}

\* the characters the pattern [^\w\s\.\,\!\?\:\;\-\(\)] does not match
IsKept(c) == IsWordChar(c) \/ IsSpace(c) \/ c \in KeptPunctuation

\* re.sub(r'[^\w\s\.\,\!\?\:\;\-\(\)]', '', text)
RemoveSpecial(text) == SelectSeq(text, IsKept)

\* Python's None passed where a str is expected: told apart from every str,
\* whose elements are single characters
NoText == <<"None">>

\* clean_text with text.strip() applied before the two substitutions
CleanTextStripFirst(text) ==
    IF text = NoText \/ text = <<>> THEN <<>>
    ELSE RemoveSpecial(CollapseWhitespace(Strip(text)))

\* clean_text(text); an absent text (None) is falsy like the empty string
CleanText(text) ==
    IF text = NoText \/ text = <<>> THEN <<>>
    ELSE Strip(RemoveSpecial(CollapseWhitespace(text)))

\* bound on the length of the text given to clean_text
MaxCleanLen == 5

\* characters of the texts: a letter, two kinds of whitespace, a kept and a
\* removed punctuation character
CleanAlphabet == {"a", " ", "\n", "!", "@"}

InitClean ==
    /\ pc = "clean"
    /\ clean_input \in SeqsUpTo(CleanAlphabet, MaxCleanLen) \cup {NoText}
    /\ clean_output = None
    /\ MatchUnused /\ RankUnused /\ ResumeUnused /\ SkillsUnused
    /\ JobUnused /\ AppUnused
    /\ SectionUnused /\ EntryUnused

CallCleanText ==
    /\ pc = "clean"
    /\ clean_output' = CleanText(clean_input)
    /\ pc' = "cleaned"
    /\ UNCHANGED <<clean_input, matchVars, rankVars, resumeVars, skillVars,
                 jobVars, appVars, sectionVars,
                   entryVars>>

NextClean == CallCleanText

SpecClean == InitClean /\ [][NextClean]_vars

---------------------------------------------------------------------------
(* Claims about clean_text, checked under SpecClean                        *)

\* C10: every run of whitespace is collapsed to a single space: for every
\* input the output contains no two adjacent whitespace characters.
C10_NoAdjacentWhitespace ==
    pc = "cleaned" =>
        \A i \in 1..(Len(clean_output) - 1) :
            ~(IsSpace(clean_output[i]) /\ IsSpace(clean_output[i + 1]))

\* C11: for every input, the empty and the absent one included, clean_text
\* returns a string with no leading and no trailing whitespace whose
\* characters are all word characters, whitespace or one of . , ! ? : ; - ( );
\* the empty and the absent input give the empty string.
C11_TrimmedAndCharset ==
    pc = "cleaned" =>
        /\ clean_output \in Seq(WordChars \cup {" ", "\n", "\t", "\r"}
                                \cup KeptPunctuation)
        /\ clean_output # <<>> =>
               /\ ~IsSpace(clean_output[1])
               /\ ~IsSpace(clean_output[Len(clean_output)])
        /\ clean_input \in {NoText, <<>>} => clean_output = <<>>

\* an input whose removed character is followed by whitespace: the output
\* starts where the whitespace ended
C11_Witness ==
    /\ pc = "cleaned"
    /\ clean_input = <<"@", " ", "a", "\n">>
    /\ clean_output = <<"a">>

\* the absent input has been cleaned to the empty string
C11_AbsentWitness ==
    pc = "cleaned" /\ clean_input = NoText /\ clean_output = <<>>

---------------------------------------------------------------------------
(* utils.extract_skills_from_text                                          *)

\* skill_keywords
SkillKeywords ==
    <<
      <<"p","y","t","h","o","n">>,
      <<"j","a","v","a">>,
      <<"j","a","v","a","s","c","r","i","p","t">>,
      <<"r","e","a","c","t">>,
      <<"a","n","g","u","l","a","r">>,
      <<"v","u","e">>,
      <<"n","o","d","e",".","j","s">>,
      <<"s","q","l">>,
      <<"m","o","n","g","o","d","b">>,
      <<"p","o","s","t","g","r","e","s","q","l">>,
      <<"m","y","s","q","l">>,
      <<"a","w","s">>,
      <<"a","z","u","r","e">>,
      <<"g","c","p">>,
      <<"d","o","c","k","e","r">>,
      <<"k","u","b","e","r","n","e","t","e","s">>,
      <<"g","i","t">>,
      <<"m","a","c","h","i","n","e"," ","l","e","a","r","n","i","n","g">>,
      <<"a","i">>,
      <<"d","e","e","p"," ","l","e","a","r","n","i","n","g">>,
      <<"t","e","n","s","o","r","f","l","o","w">>,
      <<"p","y","t","o","r","c","h">>,
      <<"s","c","i","k","i","t","-","l","e","a","r","n">>,
      <<"p","a","n","d","a","s">>,
      <<"n","u","m","p","y">>,
      <<"m","a","t","p","l","o","t","l","i","b">>,
      <<"h","t","m","l">>,
      <<"c","s","s">>,
      <<"b","o","o","t","s","t","r","a","p">>,
      <<"j","q","u","e","r","y">>,
      <<"d","j","a","n","g","o">>,
      <<"f","l","a","s","k">>,
      <<"f","a","s","t","a","p","i">>,
      <<"s","p","r","i","n","g">>,
      <<"h","i","b","e","r","n","a","t","e">>,
      <<"m","a","v","e","n">>,
      <<"g","r","a","d","l","e">>,
      <<"j","e","n","k","i","n","s">>,
      <<"c","i","/","c","d">>,
      <<"a","g","i","l","e">>,
      <<"s","c","r","u","m">>,
      <<"j","i","r","a">>,
      <<"c","o","n","f","l","u","e","n","c","e">>,
      <<"r","e","s","t"," ","a","p","i">>,
      <<"g","r","a","p","h","q","l">>,
      <<"m","i","c","r","o","s","e","r","v","i","c","e","s">>,
      <<"s","e","r","v","e","r","l","e","s","s">>,
      <<"l","a","m","b","d","a">>,
      <<"s","3">>,
      <<"e","c","2">>,
      <<"r","d","s">> >>

\* skill in text.split() : the term must be a whole whitespace-separated word
TermOccursAsWord(skill, text_lower) ==
    \E k \in 1..Len(Split(text_lower)) : Split(text_lower)[k] = skill

\* skill in text_lower
TermOccurs(skill, text_lower) == IsSubstring(skill, text_lower)

\* skill in text : the text is not lower-cased
LowerSkipped(text) == text

\* text_lower = text.lower()
TextLower(text) == StrLower(text)

\* found_skills after the loop: the terms that occur, in vocabulary order
FoundSkills(text) ==
    LET text_lower == TextLower(text)
    IN  SelectSeq(SkillKeywords, LAMBDA skill : TermOccurs(skill, text_lower))

\* the orders list(set(found_skills)) can come out in: a set's iteration
\* order is not defined, so every order of the distinct elements is possible
ListOfSet(found) ==
    LET S == Range(found)
    IN  {f \in [1..Cardinality(S) -> S] : \A i, j \in DOMAIN f : f[i] = f[j] => i = j}

\* the lists extract_skills_from_text(text) can return
ExtractSkillsFromText(text) == ListOfSet(FoundSkills(text))

\* bound on the length of the text given to extract_skills_from_text
MaxSkillTextLen == 4

\* characters of the texts: they spell the terms "ai" and "s3", in both cases
SkillAlphabet == {"a", "i", "A", "s", "3", " "}

InitSkills ==
    /\ pc = "skills"
    /\ skills_text \in SeqsUpTo(SkillAlphabet, MaxSkillTextLen)
    /\ found_skills = None
    /\ found_skills_doubled = None
    /\ MatchUnused /\ RankUnused /\ ResumeUnused /\ CleanUnused
    /\ JobUnused /\ AppUnused
    /\ SectionUnused /\ EntryUnused

\* extract_skills_from_text(text)
CallExtractSkills ==
    /\ pc = "skills"
    /\ found_skills' \in ExtractSkillsFromText(skills_text)
    /\ pc' = "extracted"
    /\ UNCHANGED <<skills_text, found_skills_doubled, matchVars, rankVars,
                   resumeVars, cleanVars,
                 jobVars, appVars, sectionVars,
                   entryVars>>

\* extract_skills_from_text(text + text)
CallExtractSkillsDoubled ==
    /\ pc = "extracted"
    /\ found_skills_doubled' \in ExtractSkillsFromText(skills_text \o skills_text)
    /\ pc' = "extracted_twice"
    /\ UNCHANGED <<skills_text, found_skills, matchVars, rankVars, resumeVars,
                   cleanVars,
                 jobVars, appVars, sectionVars,
                   entryVars>>

NextSkills == CallExtractSkills \/ CallExtractSkillsDoubled

SpecSkills == InitSkills /\ [][NextSkills]_vars

---------------------------------------------------------------------------
(* Claims about extract_skills_from_text, checked under SpecSkills         *)

\* C8 as stated: extractSkills(text) and extractSkills(text + text) are the
\* same set.
C8_DoublingSameSet ==
    pc = "extracted_twice" => Range(found_skills) = Range(found_skills_doubled)

\* C8 amended: every skill of extractSkills(text) is in extractSkills(text +
\* text): doubling removes no skill.  It can add one, which then occurs in
\* text + text only across the junction of the two copies.
C8_DoublingKeepsSkills ==
    pc = "extracted_twice" =>
        /\ Range(found_skills) \subseteq Range(found_skills_doubled)
        /\ \A skill \in Range(found_skills_doubled) \ Range(found_skills) :
               LET n == Len(skills_text)
                   d == StrLower(skills_text \o skills_text)
               IN  \A i \in 1..(2 * n - Len(skill) + 1) :
                       SubSeq(d, i, i + Len(skill) - 1) = skill
                           => i <= n /\ i + Len(skill) - 1 > n

\* text "3ais": its skill "ai" is kept, and "3ais3ais" also holds "s3"
C8_Witness ==
    /\ pc = "extracted_twice"
    /\ skills_text = <<"3", "a", "i", "s">>
    /\ Range(found_skills) = {<<"a", "i">>}
    /\ Range(found_skills_doubled) = {<<"a", "i">>, <<"s", "3">>}

\* C9: the result has no duplicates; a vocabulary term is in the result if
\* and only if it occurs as a substring of the lower-cased text; nothing
\* outside the vocabulary is returned.
C9_ExactlyTheTermsThatOccur ==
    pc \in {"extracted", "extracted_twice"} =>
        /\ \A i, j \in 1..Len(found_skills) :
               found_skills[i] = found_skills[j] => i = j
        /\ \A k \in 1..Len(SkillKeywords) :
               SkillKeywords[k] \in Range(found_skills)
                   <=> IsSubstring(SkillKeywords[k], StrLower(skills_text))
        /\ Range(found_skills) \subseteq Range(SkillKeywords)

\* text "Ais3": the terms "ai" and "s3" are returned, here in the order s3, ai
C9_Witness ==
    /\ pc = "extracted"
    /\ skills_text = <<"A", "i", "s", "3">>
    /\ found_skills = << <<"s", "3">>, <<"a", "i">> >>

---------------------------------------------------------------------------
(* ResumeParser: sections and the entry state machines                     *)

\* text.split('\n')
SplitLines(text) == PiecesBetween(text, {i \in 1..Len(text) : text[i] = "\n"})

\* '\n'.join(lines)
RECURSIVE JoinLines(_)
JoinLines(lines) ==
    IF lines = <<>> THEN <<>>
    ELSE IF Len(lines) = 1 THEN lines[1]
    ELSE lines[1] \o <<"\n">> \o JoinLines(Tail(lines))

\* the lines a loop body sees: each stripped, the empty ones skipped
StrippedLines(text) ==
    LET lines == SplitLines(text)
    IN  SelectSeq([i \in 1..Len(lines) |-> Strip(lines[i])], LAMBDA l : l # <<>>)

\* d[key] = value on a dict
SetKey(d, key, value) ==
    [k \in DOMAIN d \cup {key} |-> IF k = key THEN value ELSE d[k]]

\* {}
EmptyDict == [k \in {} |-> k]

\* any(keyword in line_lower for keyword in keywords)
AnyIn(keywords, line_lower) ==
    \E k \in 1..Len(keywords) : IsSubstring(keywords[k], line_lower)

\* self.section_keywords, in the order of the dict
SectionNames == <<"education", "experience", "skills", "projects", "contact">>

SectionKeywords ==
    [education  |-> << <<"e","d","u","c","a","t","i","o","n">>,
               <<"a","c","a","d","e","m","i","c">>,
               <<"d","e","g","r","e","e">>,
               <<"u","n","i","v","e","r","s","i","t","y">>,
               <<"c","o","l","l","e","g","e">>,
               <<"s","c","h","o","o","l">> >>,
     experience |-> << <<"e","x","p","e","r","i","e","n","c","e">>,
               <<"w","o","r","k"," ","h","i","s","t","o","r","y">>,
               <<"e","m","p","l","o","y","m","e","n","t">>,
               <<"c","a","r","e","e","r">>,
               <<"j","o","b">> >>,
     skills     |-> << <<"s","k","i","l","l","s">>,
               <<"t","e","c","h","n","i","c","a","l"," ","s","k","i","l","l","s">>,
               <<"c","o","m","p","e","t","e","n","c","i","e","s">>,
               <<"t","e","c","h","n","o","l","o","g","i","e","s">> >>,
     projects   |-> << <<"p","r","o","j","e","c","t","s">>,
               <<"p","o","r","t","f","o","l","i","o">>,
               <<"a","c","h","i","e","v","e","m","e","n","t","s">>,
               <<"a","c","c","o","m","p","l","i","s","h","m","e","n","t","s">> >>,
     contact    |-> << <<"c","o","n","t","a","c","t">>,
               <<"e","m","a","i","l">>,
               <<"p","h","o","n","e">>,
               <<"a","d","d","r","e","s","s">>,
               <<"l","i","n","k","e","d","i","n">> >>]

\* SectionsOf with the keywords looked up in the line as written
SectionsOfCaseSensitive(line) ==
    SelectSeq(SectionNames, LAMBDA name : AnyIn(SectionKeywords[name], line))

\* the sections, in dict order, that have a keyword in the line
SectionsOf(line) ==
    SelectSeq(SectionNames,
              LAMBDA name : AnyIn(SectionKeywords[name], StrLower(line)))

\* SectionStep that keeps current_content across a header line
SectionStepKeepsContent(st, line) ==
    LET hits == SectionsOf(line)
    IN  IF hits # <<>>
        THEN [sections |->
                  IF st.current_section # "general"
                  THEN SetKey(st.sections, st.current_section,
                              JoinLines(st.current_content))
                  ELSE st.sections,
              current_section |-> hits[1],
              current_content |-> st.current_content]
        ELSE [st EXCEPT !.current_content = Append(@, line)]

\* one iteration of the loop of _extract_sections on a stripped, non-empty line;
\* st holds sections, current_section and current_content (a list of lines)
SectionStep(st, line) ==
    LET hits == SectionsOf(line)
    IN  IF hits # <<>>
        THEN [sections |->
                  IF st.current_section # "general"
                  THEN SetKey(st.sections, st.current_section,
                              JoinLines(st.current_content))
                  ELSE st.sections,
              current_section |-> hits[1],
              current_content |-> <<>>]
        ELSE [st EXCEPT !.current_content = Append(@, line)]

RECURSIVE SectionLoop(_, _)
SectionLoop(st, lines) ==
    IF lines = <<>> THEN st
    ELSE SectionLoop(SectionStep(st, Head(lines)), Tail(lines))

\* _extract_sections(text): the dict of section name -> text
ExtractSections(text) ==
    LET st == SectionLoop([sections |-> EmptyDict,
                           current_section |-> "general",
                           current_content |-> <<>>],
                          StrippedLines(text))
    IN  IF st.current_content # <<>>
        THEN SetKey(st.sections, st.current_section, JoinLines(st.current_content))
        ELSE st.sections

\* sections.get(name, '')
SectionText(sections, name) ==
    IF name \in DOMAIN sections THEN sections[name] ELSE <<>>

\* the pattern \bword\b matches at position i of line
WordAt(line, i, word) ==
    /\ i + Len(word) - 1 <= Len(line)
    /\ SubSeq(line, i, i + Len(word) - 1) = word
    /\ i = 1 \/ ~IsWordChar(line[i - 1])
    /\ i + Len(word) - 1 = Len(line) \/ ~IsWordChar(line[i + Len(word)])

\* re.search(r'\b(w1|w2|...)\b', line) for the words of a set
HasWord(line, words) ==
    \E i \in 1..Len(line) : \E w \in words : WordAt(line, i, w)

\* the pattern \b(20\d{2}|19\d{2})\b matches at position i of line
YearAt(line, i) ==
    /\ i + 3 <= Len(line)
    /\ <<line[i], line[i + 1]>> \in {<<"2", "0">>, <<"1", "9">>}
    /\ line[i + 2] \in DIGITS
    /\ line[i + 3] \in DIGITS
    /\ i = 1 \/ ~IsWordChar(line[i - 1])
    /\ i + 3 = Len(line) \/ ~IsWordChar(line[i + 4])

\* re.search(r'\b(20\d{2}|19\d{2})\b', line)
HasYear(line) == \E i \in 1..Len(line) : YearAt(line, i)

\* re.search(r'\b(20\d{2}|19\d{2})\b.*\b(20\d{2}|19\d{2}|Present|Current)\b', line)
HasYearRange(line) ==
    \E i \in 1..Len(line) :
        /\ YearAt(line, i)
        /\ \E j \in (i + 4)..Len(line) :
               \/ YearAt(line, j)
               \/ WordAt(line, j, <<"P","r","e","s","e","n","t">>)
               \/ WordAt(line, j, <<"C","u","r","r","e","n","t">>)

\* University|College|School|Institute|Academy, matched with re.IGNORECASE
InstitutionWords == { <<"u","n","i","v","e","r","s","i","t","y">>,
              <<"c","o","l","l","e","g","e">>,
              <<"s","c","h","o","o","l">>,
              <<"i","n","s","t","i","t","u","t","e">>,
              <<"a","c","a","d","e","m","y">> }

\* one iteration of the loop of _extract_education; st holds education_list
\* and current_education
EducationStep(st, line) ==
    LET lower == StrLower(line)
    IN  IF HasWord(lower, InstitutionWords)
        THEN [list |-> IF DOMAIN st.current # {} THEN Append(st.list, st.current)
                       ELSE st.list,
              current |-> [institution |-> line]]
        ELSE IF \/ IsSubstring(<<"d","e","g","r","e","e">>, lower)
                \/ IsSubstring(<<"b","a","c","h","e","l","o","r">>, lower)
                \/ IsSubstring(<<"m","a","s","t","e","r">>, lower)
        THEN [st EXCEPT !.current = SetKey(@, "degree", line)]
        ELSE IF HasYear(line)
        THEN [st EXCEPT !.current = SetKey(@, "year", line)]
        ELSE IF IsSubstring(<<"g","p","a">>, lower)
        THEN [st EXCEPT !.current = SetKey(@, "gpa", line)]
        ELSE st

\* the job-title keywords of _extract_experience
TitleKeywords == << <<"e","n","g","i","n","e","e","r">>,
               <<"d","e","v","e","l","o","p","e","r">>,
               <<"m","a","n","a","g","e","r">>,
               <<"a","n","a","l","y","s","t">>,
               <<"s","p","e","c","i","a","l","i","s","t">> >>

\* description set, or extended by ' ' + line
AddDescription(current, line) ==
    IF "description" \notin DOMAIN current
    THEN SetKey(current, "description", line)
    ELSE SetKey(current, "description", current["description"] \o <<" ">> \o line)

\* one iteration of the loop of _extract_experience
ExperienceStep(st, line) ==
    IF HasYearRange(line)
    THEN [list |-> IF DOMAIN st.current # {} THEN Append(st.list, st.current)
                   ELSE st.list,
          current |-> [period |-> line]]
    ELSE IF AnyIn(TitleKeywords, StrLower(line))
    THEN IF "title" \notin DOMAIN st.current
         THEN [st EXCEPT !.current = SetKey(@, "title", line)]
         ELSE st
    ELSE IF "@" \in Range(line) \/ IsSubstring(<<"w","w","w",".">>, line)
    THEN IF "company" \notin DOMAIN st.current
         THEN [st EXCEPT !.current = SetKey(@, "company", line)]
         ELSE st
    ELSE IF Len(line) > 20 /\ ~HasYear(line)
    THEN [st EXCEPT !.current = AddDescription(@, line)]
    ELSE st

\* Project|App|System|Platform|Tool, matched with re.IGNORECASE
ProjectWords == { <<"p","r","o","j","e","c","t">>,
              <<"a","p","p">>,
              <<"s","y","s","t","e","m">>,
              <<"p","l","a","t","f","o","r","m">>,
              <<"t","o","o","l">> }

\* one iteration of the loop of _extract_projects
ProjectStep(st, line) ==
    IF HasWord(StrLower(line), ProjectWords)
    THEN [list |-> IF DOMAIN st.current # {} THEN Append(st.list, st.current)
                   ELSE st.list,
          current |-> [name |-> line]]
    ELSE IF IsSubstring(<<"g","i","t","h","u","b",".","c","o","m">>, line) \/ IsSubstring(<<"g","i","t","l","a","b",".","c","o","m">>, line)
    THEN [st EXCEPT !.current = SetKey(@, "repository", line)]
    ELSE IF Len(line) > 20
    THEN [st EXCEPT !.current = AddDescription(@, line)]
    ELSE st

\* an entry state machine before its first line
NoEntries == [list |-> <<>>, current |-> EmptyDict]

\* Flushed without the in-progress entry
FlushedWithoutCurrent(st) == st.list

\* what an entry state machine returns: the in-progress entry is appended at
\* the end when it is not empty
Flushed(st) ==
    IF DOMAIN st.current # {} THEN Append(st.list, st.current) ELSE st.list

RECURSIVE EducationLoop(_, _)
EducationLoop(st, lines) ==
    IF lines = <<>> THEN st
    ELSE EducationLoop(EducationStep(st, Head(lines)), Tail(lines))

RECURSIVE ExperienceLoop(_, _)
ExperienceLoop(st, lines) ==
    IF lines = <<>> THEN st
    ELSE ExperienceLoop(ExperienceStep(st, Head(lines)), Tail(lines))

RECURSIVE ProjectLoop(_, _)
ProjectLoop(st, lines) ==
    IF lines = <<>> THEN st
    ELSE ProjectLoop(ProjectStep(st, Head(lines)), Tail(lines))

\* _extract_education(education_text)
ExtractEducation(text) ==
    IF text = <<>> THEN <<>>
    ELSE Flushed(EducationLoop(NoEntries, StrippedLines(text)))

\* _extract_experience(experience_text)
ExtractExperience(text) ==
    IF text = <<>> THEN <<>>
    ELSE Flushed(ExperienceLoop(NoEntries, StrippedLines(text)))

\* _extract_projects(projects_text)
ExtractProjects(text) ==
    IF text = <<>> THEN <<>>
    ELSE Flushed(ProjectLoop(NoEntries, StrippedLines(text)))

---------------------------------------------------------------------------
(* ResumeParser._extract_name, _extract_email, _extract_phone,             *)
(* _extract_linkedin, _extract_summary                                     *)

\* the strings returned when nothing is found; a character outside ASCII is
\* written as its code point
NameNotFound     == <<"U+59D3", "U+540D", "U+672A", "U+627E", "U+5230">>
EmailNotFound    == <<"U+90AE", "U+7BB1", "U+672A", "U+627E", "U+5230">>
PhoneNotFound    == <<"U+7535", "U+8BDD", "U+672A", "U+627E", "U+5230">>
LinkedInNotFound ==
    <<"L", "i", "n", "k", "e", "d", "I", "n", "U+672A", "U+627E", "U+5230">>
SummaryNotFound  ==
    <<"U+4E2A", "U+4EBA", "U+603B", "U+7ED3", "U+672A", "U+627E", "U+5230">>

MinOf(S) == CHOOSE x \in S : \A y \in S : x <= y
MaxOf(S) == CHOOSE x \in S : \A y \in S : x >= y

\* every character of s[a..b] is in chars
AllIn(s, a, b, chars) == \A k \in a..b : s[k] \in chars

\* s has p at position i
PrefixAt(s, i, p) ==
    i + Len(p) - 1 <= Len(s) /\ SubSeq(s, i, i + Len(p) - 1) = p

\* \b holds between positions k and k + 1 of s
WordBoundary(s, k) ==
    (k >= 1 /\ IsWordChar(s[k])) # (k < Len(s) /\ IsWordChar(s[k + 1]))

\* re.match(r'^[A-Z][a-z]+', line)
CapitalisedAt(line, i) ==
    /\ i + 1 <= Len(line)
    /\ line[i] \in Range(UPPER)
    /\ line[i + 1] \in Range(LOWER)

\* re.match(r'^[A-Z][a-z]+ [A-Z][a-z]+', line)
TwoCapitalisedWords(line) ==
    \E k \in 2..Len(line) :
        /\ line[1] \in Range(UPPER)
        /\ AllIn(line, 2, k, Range(LOWER))
        /\ k + 1 <= Len(line) /\ line[k + 1] = " "
        /\ CapitalisedAt(line, k + 2)

\* the test _extract_name applies to a stripped line
IsNameLine(line) ==
    /\ Len(line) > 2 /\ Len(line) < 50
    /\ \/ TwoCapitalisedWords(line)
       \/ CapitalisedAt(line, 1) /\ " " \in Range(line)

\* _extract_name returning the empty string when no line qualifies
ExtractNameOrEmpty(text) ==
    LET lines == SplitLines(text)
        first == [i \in 1..(IF Len(lines) < 5 THEN Len(lines) ELSE 5) |->
                     Strip(lines[i])]
        hits  == {i \in DOMAIN first : IsNameLine(first[i])}
    IN  IF hits = {} THEN <<>> ELSE first[MinOf(hits)]

\* _extract_name(text)
ExtractName(text) ==
    LET lines == SplitLines(text)
        first == [i \in 1..(IF Len(lines) < 5 THEN Len(lines) ELSE 5) |->
                     Strip(lines[i])]
        hits  == {i \in DOMAIN first : IsNameLine(first[i])}
    IN  IF hits = {} THEN NameNotFound ELSE first[MinOf(hits)]

Letters     == Range(UPPER) \cup Range(LOWER)
LocalChars  == Letters \cup DIGITS \cup {".", "_", "%", "+", "-"}
DomainChars == Letters \cup DIGITS \cup {".", "-"}
TldChars    == Letters \cup {"|"}

\* the pairs <<d, e>> for which email_pattern matches s[i..e] with the dot
\* before the last label at d
EmailMatchesAt(s, i) ==
    IF ~WordBoundary(s, i - 1) THEN {}
    ELSE { m \in (i..Len(s)) \X (i..Len(s)) :
             /\ s[m[1]] = "."
             /\ m[2] >= m[1] + 2
             /\ AllIn(s, m[1] + 1, m[2], TldChars)
             /\ WordBoundary(s, m[2])
             /\ \E a \in (i + 1)..(m[1] - 2) :
                    /\ s[a] = "@"
                    /\ AllIn(s, i, a - 1, LocalChars)
                    /\ AllIn(s, a + 1, m[1] - 1, DomainChars) }

\* _extract_email(text): the leftmost match, its greedy groups as long as a
\* match allows
ExtractEmail(text) ==
    LET starts == {i \in 1..Len(text) : EmailMatchesAt(text, i) # {}}
    IN  IF starts = {} THEN EmailNotFound
        ELSE LET i == MinOf(starts)
                 m == EmailMatchesAt(text, i)
                 d == MaxOf({p[1] : p \in m})
                 e == MaxOf({p[2] : p \in {q \in m : q[1] = d}})
             IN  SubSeq(text, i, e)

PhoneSeparators == {"-", "."}

\* position after the optional [-.] at k
SkipSep(s, k) == IF k <= Len(s) /\ s[k] \in PhoneSeparators THEN k + 1 ELSE k

\* \d{n} matches at k
DigitsAt(s, k, n) == k + n - 1 <= Len(s) /\ AllIn(s, k, k + n - 1, DIGITS)

\* the end of the match of \b\d{n1}[-.]?\d{n2}[-.]?\d{4}\b at i, 0 if none
GroupedDigitsEnd(s, i, n1, n2) ==
    LET j == SkipSep(s, i + n1)
        k == SkipSep(s, j + n2)
    IN  IF /\ WordBoundary(s, i - 1)
           /\ DigitsAt(s, i, n1)
           /\ DigitsAt(s, j, n2)
           /\ DigitsAt(s, k, 4)
           /\ WordBoundary(s, k + 3)
        THEN k + 3 ELSE 0

\* re.findall of one of the first two phone patterns: the leftmost match, or
\* the empty string
FirstGroupedDigits(s, n1, n2) ==
    LET starts == {i \in 1..Len(s) : GroupedDigitsEnd(s, i, n1, n2) > 0}
    IN  IF starts = {} THEN <<>>
        ELSE SubSeq(s, MinOf(starts), GroupedDigitsEnd(s, MinOf(starts), n1, n2))

\* the ways \d{1,3}[-.]?\d{1,4}[-.]?\d{1,4}[-.]?\d{1,4} can divide a match:
\* the lengths of the four digit groups and whether each separator is taken
InternationalShapes ==
    (1..3) \X (0..1) \X (1..4) \X (0..1) \X (1..4) \X (0..1) \X (1..4)

\* the end of the match of the international pattern at i divided as m, 0 if
\* it does not match that way
InternationalEnd(s, i, m) ==
    LET p1 == i + 1
        p2 == p1 + m[1] + m[2]
        p3 == p2 + m[3] + m[4]
        p4 == p3 + m[5] + m[6]
        e  == p4 + m[7] - 1
    IN  IF /\ e <= Len(s)
           /\ s[i] = "+"
           /\ AllIn(s, p1, p1 + m[1] - 1, DIGITS)
           /\ m[2] = 1 => s[p2 - 1] \in PhoneSeparators
           /\ AllIn(s, p2, p2 + m[3] - 1, DIGITS)
           /\ m[4] = 1 => s[p3 - 1] \in PhoneSeparators
           /\ AllIn(s, p3, p3 + m[5] - 1, DIGITS)
           /\ m[6] = 1 => s[p4 - 1] \in PhoneSeparators
           /\ AllIn(s, p4, e, DIGITS)
           /\ WordBoundary(s, e)
        THEN e ELSE 0

\* the order in which the greedy quantifiers try the divisions: a larger rank
\* is tried first
ShapeRank(m) ==
    (((((m[1] * 5 + m[2]) * 5 + m[3]) * 5 + m[4]) * 5 + m[5]) * 5 + m[6]) * 5 + m[7]

\* re.findall of the international pattern: the leftmost match, or the empty
\* string
FirstInternational(s) ==
    LET starts == {i \in 1..Len(s) : s[i] = "+" /\
                      \E m \in InternationalShapes : InternationalEnd(s, i, m) > 0}
    IN  IF starts = {} THEN <<>>
        ELSE LET i     == MinOf(starts)
                 ways  == {m \in InternationalShapes : InternationalEnd(s, i, m) > 0}
                 first == CHOOSE m \in ways :
                              \A o \in ways : ShapeRank(m) >= ShapeRank(o)
             IN  SubSeq(s, i, InternationalEnd(s, i, first))

\* _extract_phone(text)
ExtractPhone(text) ==
    IF FirstGroupedDigits(text, 3, 3) # <<>> THEN FirstGroupedDigits(text, 3, 3)
    ELSE IF FirstGroupedDigits(text, 4, 4) # <<>> THEN FirstGroupedDigits(text, 4, 4)
    ELSE IF FirstInternational(text) # <<>> THEN FirstInternational(text)
    ELSE PhoneNotFound

LinkedInHost == <<"l", "i", "n", "k", "e", "d", "i", "n", ".", "c", "o", "m", "/", "i", "n", "/">>
SlugChars    == Letters \cup DIGITS \cup {"-"}

\* the end of the match of linkedin_pattern at i, 0 if none
LinkedInEnd(s, i) ==
    LET p1  == i + 4
        p2  == IF PrefixAt(s, p1, <<"s">>) THEN p1 + 1 ELSE p1
        p3  == p2 + 3
        p4  == IF PrefixAt(s, p3, <<"w", "w", "w", ".">>) THEN p3 + 4 ELSE p3
        p5  == p4 + Len(LinkedInHost)
        run == {e \in p5..Len(s) : AllIn(s, p5, e, SlugChars)}
    IN  IF /\ PrefixAt(s, i, <<"h", "t", "t", "p">>)
           /\ PrefixAt(s, p2, <<":", "/", "/">>)
           /\ PrefixAt(s, p4, LinkedInHost)
           /\ run # {}
        THEN MaxOf(run) ELSE 0

\* _extract_linkedin(text)
ExtractLinkedIn(text) ==
    LET starts == {i \in 1..Len(text) : LinkedInEnd(text, i) > 0}
    IN  IF starts = {} THEN LinkedInNotFound
        ELSE SubSeq(text, MinOf(starts), LinkedInEnd(text, MinOf(starts)))

SummaryKeywords ==
    << <<"s", "u", "m", "m", "a", "r", "y">>,
       <<"o", "b", "j", "e", "c", "t", "i", "v", "e">>,
       <<"p", "r", "o", "f", "i", "l", "e">>,
       <<"a", "b", "o", "u", "t">> >>

\* the stripped lines j..last collected until one is not longer than 10
RECURSIVE SummaryLinesFrom(_, _, _)
SummaryLinesFrom(lines, j, last) ==
    IF j > last \/ Len(Strip(lines[j])) <= 10 THEN <<>>
    ELSE <<Strip(lines[j])>> \o SummaryLinesFrom(lines, j + 1, last)

\* the summary_lines collected after the keyword line i
SummaryBody(lines, i) ==
    SummaryLinesFrom(lines, i + 1,
                     IF i + 4 < Len(lines) THEN i + 4 ELSE Len(lines))

\* ' '.join(summary_lines)
RECURSIVE JoinSpaces(_)
JoinSpaces(lines) ==
    IF lines = <<>> THEN <<>>
    ELSE IF Len(lines) = 1 THEN lines[1]
    ELSE lines[1] \o <<" ">> \o JoinSpaces(Tail(lines))

\* _extract_summary(text)
ExtractSummary(text) ==
    LET lines == SplitLines(text)
        hits  == {i \in 1..Len(lines) :
                     /\ AnyIn(SummaryKeywords, StrLower(lines[i]))
                     /\ SummaryBody(lines, i) # <<>>}
    IN  IF hits = {} THEN SummaryNotFound
        ELSE JoinSpaces(SummaryBody(lines, MinOf(hits)))

---------------------------------------------------------------------------
(* ResumeParser._parse_resume_text                                         *)

\* _parse_resume_text without the call of clean_text
ParseResumeTextAsGiven(text, skills) ==
    LET sections == ExtractSections(text)
    IN  [name       |-> ExtractName(text),
         email      |-> ExtractEmail(text),
         phone      |-> ExtractPhone(text),
         linkedin   |-> ExtractLinkedIn(text),
         summary    |-> ExtractSummary(text),
         education  |-> ExtractEducation(SectionText(sections, "education")),
         experience |-> ExtractExperience(SectionText(sections, "experience")),
         skills     |-> skills,
         projects   |-> ExtractProjects(SectionText(sections, "projects")),
         raw_text   |-> text]

\* the dict _parse_resume_text builds from the text it was given; skills is
\* the skill list in one of the orders list(set(...)) can produce
ParseResumeText(text, skills) ==
    LET cleaned  == CleanText(text)
        sections == ExtractSections(cleaned)
    IN  [name       |-> ExtractName(cleaned),
         email      |-> ExtractEmail(cleaned),
         phone      |-> ExtractPhone(cleaned),
         linkedin   |-> ExtractLinkedIn(cleaned),
         summary    |-> ExtractSummary(cleaned),
         education  |-> ExtractEducation(SectionText(sections, "education")),
         experience |-> ExtractExperience(SectionText(sections, "experience")),
         skills     |-> skills,
         projects   |-> ExtractProjects(SectionText(sections, "projects")),
         raw_text   |-> cleaned]

\* lines of a résumé of the shape header / institution / year / header /
\* job title / year range
EducationHeaderLines  ==
    { <<"E","d","u","c","a","t","i","o","n">>, <<"E","D","U","C","A","T","I","O","N">> }
InstitutionLines      ==
    { <<"M","I","T">>, <<"T","e","c","h"," ","I","n","s","t","i","t","u","t","e">> }
YearLines             ==
    { <<"2","0","2","0">>, <<"1","9","9","9">> }
ExperienceHeaderLines ==
    { <<"E","x","p","e","r","i","e","n","c","e">>, <<"W","o","r","k"," ","E","x","p","e","r","i","e","n","c","e">> }
JobTitleLines         ==
    { <<"E","n","g","i","n","e","e","r"," ","a","t"," ","X">>, <<"D","a","t","a"," ","A","n","a","l","y","s","t">> }
YearRangeLines        ==
    { <<"2","0","1","9","-","2","0","2","1">>, <<"2","0","1","9"," ","-"," ","P","r","e","s","e","n","t">> }

\* the separators between two lines of the extracted text
LineBreaks == { <<"\n">>, <<"\n", "\n">> }

ResumeTexts ==
    { h1 \o br \o inst \o <<"\n">> \o yr \o br \o h2 \o <<"\n">> \o job
         \o <<"\n">> \o range :
        <<h1, inst, yr, h2, job, range, br>> \in
            EducationHeaderLines \X InstitutionLines \X YearLines
            \X ExperienceHeaderLines \X JobTitleLines \X YearRangeLines
            \X LineBreaks }

InitResume ==
    /\ pc = "parse"
    /\ resume_text \in ResumeTexts
    /\ resume_data = None
    /\ MatchUnused /\ RankUnused /\ SkillsUnused /\ CleanUnused
    /\ JobUnused /\ AppUnused
    /\ SectionUnused /\ EntryUnused

\* resume_data = self._parse_resume_text(text)
CallParseResumeText ==
    /\ pc = "parse"
    /\ \E skills \in ExtractSkillsFromText(CleanText(resume_text)) :
           resume_data' = ParseResumeText(resume_text, skills)
    /\ pc' = "parsed"
    /\ UNCHANGED <<resume_text, matchVars, rankVars, skillVars, cleanVars,
                 jobVars, appVars, sectionVars,
                   entryVars>>

NextResume == CallParseResumeText

SpecResume == InitResume /\ [][NextResume]_vars

---------------------------------------------------------------------------
(* Claims about _parse_resume_text, checked under SpecResume               *)

\* the non-empty lines of the text given to the parser
InputLines == StrippedLines(resume_text)

\* C7: for a text made of an 'Education' header line, an institution line, a
\* year line, an 'Experience' header line, a job-title line and a year-range
\* line, the result has exactly one education entry carrying both the
\* institution and the year, and exactly one experience entry whose period
\* contains the year range and whose title contains the job-title line.
C7_OneEducationOneExperience ==
    pc = "parsed" /\ Len(InputLines) = 6 =>
        /\ Len(resume_data.education) = 1
        /\ {"institution", "year"} \subseteq DOMAIN resume_data.education[1]
        /\ IsSubstring(InputLines[2], resume_data.education[1]["institution"])
        /\ IsSubstring(InputLines[3], resume_data.education[1]["year"])
        /\ Len(resume_data.experience) = 1
        /\ {"period", "title"} \subseteq DOMAIN resume_data.experience[1]
        /\ IsSubstring(InputLines[6], resume_data.experience[1]["period"])
        /\ IsSubstring(InputLines[5], resume_data.experience[1]["title"])

---------------------------------------------------------------------------
(* utils.extract_company_name_from_url                                     *)

UpperTable ==
    [c \in Range(LOWER) |-> UPPER[CHOOSE i \in 1..26 : LOWER[i] = c]]

\* c.upper()
UpperChar(c) == IF c \in DOMAIN UpperTable THEN UpperTable[c] ELSE c

\* c is a cased character
IsCased(c) == c \in Range(UPPER) \cup Range(LOWER)

\* s.title(): a letter is upper-cased when no letter precedes it and
\* lower-cased otherwise
TitleCase(s) ==
    [i \in 1..Len(s) |->
        IF i > 1 /\ IsCased(s[i - 1]) THEN LowerChar(s[i]) ELSE UpperChar(s[i])]

\* the first position >= from where p occurs in s, 0 if there is none
Find(s, p, from) ==
    LET at == {i \in from..(Len(s) - Len(p) + 1) : SubSeq(s, i,
          i + Len(p) - 1) = p}
    IN  IF at = {} THEN 0 ELSE CHOOSE i \in at : \A j \in at : i <= j

\* s.replace(old, ''): the occurrences of old, found from left to right
\* without overlap, are removed
RECURSIVE Remove(_, _)
Remove(s, old) ==
    LET i == Find(s, old, 1)
    IN  IF i = 0 THEN s
        ELSE SubSeq(s, 1, i - 1) \o Remove(SubSeq(s, i + Len(old), Len(s)),
              old)

\* s.split(sep)[0] for a one-character sep
FirstLabel(s, sep) ==
    LET i == Find(s, <<sep>>, 1)
    IN  IF i = 0 THEN s ELSE SubSeq(s, 1, i - 1)

\* the characters a URL scheme is made of
SchemeChars == Range(UPPER) \cup Range(LOWER) \cup DIGITS \cup {"+", "-", "."}

\* urlsplit: what is left of url once a leading 'scheme:' is taken off
AfterScheme(url) ==
    LET i == Find(url, <<":">>, 1)
    IN  IF i > 1 /\ IsCased(url[1]) /\ \A k \in 1..(i - 1) : url[k] \in SchemeChars
        THEN SubSeq(url, i + 1, Len(url))
        ELSE url

\* urlparse(url).netloc for a url without control characters
Netloc(url) ==
    LET rest  == AfterScheme(url)
        stops == {i \in 3..Len(rest) : rest[i] \in {"/", "?", "#"}}
        delim == IF stops = {} THEN Len(rest) + 1
                 ELSE CHOOSE i \in stops : \A j \in stops : i <= j
    IN  IF Len(rest) >= 2 /\ rest[1] = "/" /\ rest[2] = "/"
        THEN SubSeq(rest, 3, delim - 1)
        ELSE <<>>

\* urlsplit raises ValueError("Invalid IPv6 URL"): one bracket without the
\* other (a netloc with both, an IPv6 literal, is outside this model)
NetlocInvalid(url) ==
    ("[" \in Range(Netloc(url))) # ("]" \in Range(Netloc(url)))

UnknownCompany == <<"U","n","k","n","o","w","n"," ","C","o","m","p","a","n",
      "y">>

\* domain after the three replace calls
StrippedDomain(url) ==
    Remove(Remove(Remove(StrLower(Netloc(url)), <<"w","w","w",".">>),
          <<".","c","o","m">>), <<".","o","r","g">>)

\* the brand name returned for a stripped domain that contains board.com
BoardNames ==
    << [domain |-> <<"l","i","n","k","e","d","i","n",".","c","o","m">>,
           name |-> <<"L","i","n","k","e","d","I","n">>],
       [domain |-> <<"i","n","d","e","e","d",".","c","o","m">>,
                name |-> <<"I","n","d","e","e","d">>],
       [domain |-> <<"g","l","a","s","s","d","o","o","r",".","c","o","m">>,
             name |-> <<"G","l","a","s","s","d","o","o","r">>] >>

\* extract_company_name_from_url(url)
ExtractCompanyNameFromUrl(url) ==
    LET domain == StrippedDomain(url)
        boards == {b \in 1..Len(BoardNames) :
                      IsSubstring(BoardNames[b].domain, domain)}
    IN  IF NetlocInvalid(url) THEN UnknownCompany
        ELSE IF boards # {}
             THEN BoardNames[CHOOSE b \in boards : \A o \in boards : b <= o].name
        ELSE TitleCase(FirstLabel(domain, "."))

---------------------------------------------------------------------------
(* job_extractor.JobExtractor: the parsed page and the field heuristics    *)

(* The parsed page (soup) is the sequence of its elements in document      *)
(* order.  An element is [tag, class, id, text]: its tag name, the value   *)
(* of its class attribute (class names separated by spaces, empty when it  *)
(* has none), the value of its id attribute and what get_text() returns    *)
(* for it.  A selector is [tag, class_has, class_is, id_has], an empty     *)
(* part meaning that the selector does not constrain it.                   *)

Element(tag, class, id, text) ==
    [tag |-> tag, class |-> class, id |-> id, text |-> text]

\* tag[class*="part"]
TagClassHas(tag, part) ==
    [tag |-> tag, class_has |-> part, class_is |-> <<>>, id_has |-> <<>>]
\* [class*="part"]
ClassHas(part) == TagClassHas("", part)
\* .name
ClassIs(name) ==
    [tag |-> "", class_has |-> <<>>, class_is |-> name, id_has |-> <<>>]
\* [id*="part"]
IdHas(part) ==
    [tag |-> "", class_has |-> <<>>, class_is |-> <<>>, id_has |-> part]
\* tag
TagIs(tag) == TagClassHas(tag, <<>>)

\* the element matches the selector
Matches(element, selector) ==
    /\ selector.tag # "" => element.tag = selector.tag
    /\ selector.class_has # <<>> => IsSubstring(selector.class_has,
          element.class)
    /\ selector.class_is # <<>> => selector.class_is \in Range(Split(element.class))
    /\ selector.id_has # <<>> => IsSubstring(selector.id_has, element.id)

\* soup.select_one(selector): the position of the first element that
\* matches, 0 for None
SelectOne(page, selector) ==
    LET hits == {i \in 1..Len(page) : Matches(page[i], selector)}
    IN  IF hits = {} THEN 0 ELSE MinOf(hits)

\* the loop 'for selector in selectors' of a field heuristic from selector k:
\* the cleaned text of the first selected element whose cleaned text is
\* longer than gate, the empty string when the loop ends without a return
RECURSIVE FirstQualifying(_, _, _, _)
FirstQualifying(page, selectors, k, gate) ==
    IF k > Len(selectors) THEN <<>>
    ELSE LET i    == SelectOne(page, selectors[k])
             text == IF i = 0 THEN <<>> ELSE CleanText(page[i].text)
         IN  IF text # <<>> /\ Len(text) > gate THEN text
             ELSE FirstQualifying(page, selectors, k + 1, gate)

TitleNotFound            == <<"U+804C","U+4F4D","U+6807","U+9898","U+672A",
      "U+627E","U+5230">>
LocationNotFound         == <<"U+5730","U+70B9","U+672A","U+6307","U+5B9A">>
DescriptionNotFound      == <<"U+804C","U+4F4D","U+63CF","U+8FF0","U+672A",
      "U+627E","U+5230">>
RequirementsNotFound     == <<"U+804C","U+4F4D","U+8981","U+6C42","U+672A",
      "U+627E","U+5230">>
ResponsibilitiesNotFound == <<"U+5DE5","U+4F5C","U+804C","U+8D23","U+672A",
      "U+627E","U+5230">>

TitleSelectors ==
    << TagClassHas("h1", <<"t","i","t","l","e">>), TagClassHas("h1",
          <<"j","o","b">>),
       TagClassHas("h1", <<"p","o","s","i","t","i","o","n">>),
             ClassIs(<<"j","o","b","-","t","i","t","l","e">>),
       ClassIs(<<"p","o","s","i","t","i","o","n","-","t","i","t","l","e">>),
             TagIs("h1"), TagIs("title") >>

CompanySelectors ==
    << ClassHas(<<"c","o","m","p","a","n","y">>),
          ClassHas(<<"e","m","p","l","o","y","e","r">>),
       ClassIs(<<"c","o","m","p","a","n","y","-","n","a","m","e">>),
             ClassIs(<<"e","m","p","l","o","y","e","r","-","n","a","m",
             "e">>) >>

LocationSelectors ==
    << ClassHas(<<"l","o","c","a","t","i","o","n">>),
          ClassHas(<<"a","d","d","r","e","s","s">>),
       ClassIs(<<"j","o","b","-","l","o","c","a","t","i","o","n">>),
             ClassIs(<<"l","o","c","a","t","i","o","n">>) >>

DescriptionSelectors ==
    << ClassHas(<<"d","e","s","c","r","i","p","t","i","o","n">>),
          ClassHas(<<"s","u","m","m","a","r","y">>),
       ClassIs(<<"j","o","b","-","d","e","s","c","r","i","p","t","i","o",
             "n">>), ClassIs(<<"p","o","s","i","t","i","o","n","-","d","e",
             "s","c","r","i","p","t","i","o","n">>),
       IdHas(<<"d","e","s","c","r","i","p","t","i","o","n">>) >>

RequirementSelectors ==
    << ClassHas(<<"r","e","q","u","i","r","e","m","e","n","t">>),
          ClassHas(<<"q","u","a","l","i","f","i","c","a","t","i","o","n">>),
       ClassIs(<<"j","o","b","-","r","e","q","u","i","r","e","m","e","n","t",
             "s">>), ClassIs(<<"q","u","a","l","i","f","i","c","a","t","i",
             "o","n","s">>),
       IdHas(<<"r","e","q","u","i","r","e","m","e","n","t">>) >>

ResponsibilitySelectors ==
    << ClassHas(<<"r","e","s","p","o","n","s","i","b","i","l","i","t","y">>),
          ClassHas(<<"d","u","t","y">>),
       ClassIs(<<"j","o","b","-","r","e","s","p","o","n","s","i","b","i","l",
             "i","t","i","e","s">>),
             ClassIs(<<"r","e","s","p","o","n","s","i","b","i","l","i","t",
             "i","e","s">>) >>

\* the names the suffix pattern knows
JobBoards == { <<"I","n","d","e","e","d">>,
      <<"L","i","n","k","e","d","I","n">>,
      <<"G","l","a","s","s","d","o","o","r">> }

\* the pattern \s*[-|]\s*(Indeed|LinkedIn|Glassdoor|.*\.com).* matches from
\* position i of a title without line breaks: spaces, a separator, spaces,
\* then a board name or anything up to '.com'
SuffixAt(title, i) ==
    \E j \in i..Len(title) :
        /\ \A k \in i..(j - 1) : IsSpace(title[k])
        /\ title[j] \in {"-", "|"}
        /\ \E k \in (j + 1)..(Len(title) + 1) :
               /\ \A w \in (j + 1)..(k - 1) : IsSpace(title[w])
               /\ \/ \E board \in JobBoards : PrefixAt(title, k, board)
                  \/ Find(title, <<".","c","o","m">>, k) > 0

\* re.sub(pattern, '', title) for a title without line breaks: the match
\* runs to the end, so the title is cut at the first place the pattern
\* matches
StripBoardSuffix(title) ==
    LET starts == {i \in 1..Len(title) : SuffixAt(title, i)}
    IN  IF starts = {} THEN title ELSE SubSeq(title, 1, MinOf(starts) - 1)

\* _extract_job_title(soup)
ExtractJobTitle(page) ==
    LET title     == FirstQualifying(page, TitleSelectors, 1, 3)
        title_tag == SelectOne(page, TagIs("title"))
    IN  IF title # <<>> THEN title
        ELSE IF title_tag # 0
             THEN StripBoardSuffix(CleanText(page[title_tag].text))
        ELSE TitleNotFound

\* _extract_company_name(soup, url)
ExtractCompanyName(page, url) ==
    LET company == FirstQualifying(page, CompanySelectors, 1, 2)
    IN  IF company # <<>> THEN company ELSE ExtractCompanyNameFromUrl(url)

\* _extract_location(soup)
ExtractLocation(page) ==
    LET location == FirstQualifying(page, LocationSelectors, 1, 2)
    IN  IF location # <<>> THEN location ELSE LocationNotFound

\* soup.find('main') or soup.find('article') or
\* soup.find('div', class_='content'): the position of the element, 0 for None
MainContent(page) ==
    IF SelectOne(page, TagIs("main")) # 0 THEN SelectOne(page, TagIs("main"))
    ELSE IF SelectOne(page, TagIs("article")) # 0
         THEN SelectOne(page, TagIs("article"))
    ELSE SelectOne(page, [tag |-> "div", class_has |-> <<>>,
                          class_is |-> <<"c","o","n","t","e","n","t">>,
                                id_has |-> <<>>])

\* the length limit put on a description taken from the main content, and
\* the length it has to exceed
DescriptionLimit == 1000
MainContentGate  == 100

\* _extract_description(soup)
ExtractDescription(page) ==
    LET description == FirstQualifying(page, DescriptionSelectors, 1, 50)
        main        == MainContent(page)
        content     == IF main = 0 THEN <<>> ELSE CleanText(page[main].text)
    IN  IF description # <<>> THEN description
        ELSE IF main # 0 /\ Len(content) > MainContentGate
             THEN SubSeq(content, 1,
                         IF Len(content) < DescriptionLimit THEN Len(content)
                         ELSE DescriptionLimit)
        ELSE DescriptionNotFound

\* _extract_requirements(soup)
ExtractRequirements(page) ==
    LET requirements == FirstQualifying(page, RequirementSelectors, 1, 20)
    IN  IF requirements # <<>> THEN requirements ELSE RequirementsNotFound

\* _extract_responsibilities(soup)
ExtractResponsibilities(page) ==
    LET responsibilities == FirstQualifying(page, ResponsibilitySelectors, 1,
          20)
    IN  IF responsibilities # <<>> THEN responsibilities
        ELSE ResponsibilitiesNotFound

---------------------------------------------------------------------------
(* JobExtractor._extract_experience_level, _extract_employment_type and    *)
(* extract_job_info                                                        *)

NotSpecified == <<"N","o","t"," ","s","p","e","c","i","f","i","e","d">>

\* levels, in the order of the dict
Levels ==
    << [level |-> <<"e","n","t","r","y">>,
        keywords |-> << <<"e","n","t","r","y"," ","l","e","v","e","l">>,
              <<"j","u","n","i","o","r">>,
              <<"0","-","1"," ","y","e","a","r","s">>,
              <<"1"," ","y","e","a","r">> >>],
       [level |-> <<"m","i","d">>,
        keywords |-> << <<"m","i","d"," ","l","e","v","e","l">>,
              <<"i","n","t","e","r","m","e","d","i","a","t","e">>,
              <<"2","-","4"," ","y","e","a","r","s">>,
                        <<"3"," ","y","e","a","r","s">>,
                              <<"4"," ","y","e","a","r","s">> >>],
       [level |-> <<"s","e","n","i","o","r">>,
        keywords |-> << <<"s","e","n","i","o","r">>, <<"l","e","a","d">>,
              <<"5","+"," ","y","e","a","r","s">>,
              <<"5"," ","y","e","a","r","s">>,
                        <<"6"," ","y","e","a","r","s">>,
                              <<"7"," ","y","e","a","r","s">> >>],
       [level |-> <<"e","x","p","e","r","t">>,
        keywords |-> << <<"e","x","p","e","r","t">>,
              <<"p","r","i","n","c","i","p","a","l">>,
              <<"a","r","c","h","i","t","e","c","t">>,
                        <<"1","0","+"," ","y","e","a","r","s">> >>] >>

\* the groups of a keyword table that have a keyword in text_lower
GroupsIn(table, text_lower) ==
    {g \in 1..Len(table) : AnyIn(table[g].keywords, text_lower)}

\* _extract_experience_level with the last group that has a keyword winning
ExperienceLevelLastGroup(text) ==
    LET groups == GroupsIn(Levels, StrLower(text))
    IN  IF groups = {} THEN NotSpecified
        ELSE TitleCase(Levels[MaxOf(groups)].level)

\* _extract_experience_level(text)
ExtractExperienceLevel(text) ==
    LET groups == GroupsIn(Levels, StrLower(text))
    IN  IF groups = {} THEN NotSpecified
        ELSE TitleCase(Levels[MinOf(groups)].level)

\* the if / elif chain of _extract_employment_type, in its order
EmploymentTypes ==
    << [name |-> <<"F","u","l","l","-","t","i","m","e">>,
        keywords |-> << <<"f","u","l","l"," ","t","i","m","e">>,
              <<"f","u","l","l","-","t","i","m","e">>,
              <<"f","u","l","l","t","i","m","e">> >>],
       [name |-> <<"P","a","r","t","-","t","i","m","e">>,
        keywords |-> << <<"p","a","r","t"," ","t","i","m","e">>,
              <<"p","a","r","t","-","t","i","m","e">>,
              <<"p","a","r","t","t","i","m","e">> >>],
       [name |-> <<"C","o","n","t","r","a","c","t">>,
        keywords |-> << <<"c","o","n","t","r","a","c","t">>,
              <<"c","o","n","t","r","a","c","t","o","r">> >>],
       [name |-> <<"I","n","t","e","r","n","s","h","i","p">>,
        keywords |-> << <<"i","n","t","e","r","n">>,
              <<"i","n","t","e","r","n","s","h","i","p">> >>],
       [name |-> <<"R","e","m","o","t","e">>,
        keywords |-> << <<"r","e","m","o","t","e">>,
              <<"w","o","r","k"," ","f","r","o","m"," ","h","o","m",
              "e">> >>] >>

\* _extract_employment_type(text)
ExtractEmploymentType(text) ==
    LET groups == GroupsIn(EmploymentTypes, StrLower(text))
    IN  IF groups = {} THEN NotSpecified
        ELSE EmploymentTypes[MinOf(groups)].name

\* job_info['description'] + ' ' + job_info['requirements']
DescriptionAndRequirements(info) ==
    info.description \o <<" ">> \o info.requirements

\* the text handed to _extract_employment_type were it the one handed to
\* _extract_experience_level
EmploymentTextWithRequirements(info) == DescriptionAndRequirements(info)

\* the text handed to _extract_employment_type
EmploymentText(info) == info.description

\* the dict literal job_info = {...} of extract_job_info
ExtractFields(page, url) ==
    [title            |-> ExtractJobTitle(page),
     company          |-> ExtractCompanyName(page, url),
     location         |-> ExtractLocation(page),
     description      |-> ExtractDescription(page),
     requirements     |-> ExtractRequirements(page),
     responsibilities |-> ExtractResponsibilities(page),
     skills           |-> <<>>,
     experience_level |-> <<>>,
     employment_type  |-> <<>>,
     salary_range     |-> <<>>,
     url              |-> url]

\* the three assignments that follow the dict literal; skills is the skill
\* list in one of the orders list(set(...)) can produce
Classified(info, skills) ==
    [info EXCEPT
        !.skills           = skills,
        !.experience_level =
            ExtractExperienceLevel(DescriptionAndRequirements(info)),
        !.employment_type  = ExtractEmploymentType(EmploymentText(info))]

---------------------------------------------------------------------------
(* extract_job_info on a fetched page                                      *)

\* n copies of s one after the other
RECURSIVE Repeat(_, _)
Repeat(s, n) == IF n = 0 THEN <<>> ELSE s \o Repeat(s, n - 1)

\* texts of page elements
DescriptionText ==
    <<"W","e"," ","n","e","e","d"," ","a"," ","S","e","n","i","o","r"," ","P",
          "y","t","h","o","n"," ","d","e","v","e","l","o","p","e","r"," ","f",
          "o","r"," ","a"," ","f","u","l","l","-","t","i","m","e"," ","r","e",
          "m","o","t","e"," ","r","o","l","e",".">>
RequirementsText  == <<"J","u","n","i","o","r"," ","S","Q","L"," ","s","k",
      "i","l","l","s",";"," ","c","o","n","t","r","a","c","t","o","r"," ","O",
      "K">>
ResponsibilityText == <<"B","u","i","l","d"," ","a","n","d"," ","r","u","n",
      " ","d","a","t","a"," ","p","i","p","e","l","i","n","e","s">>
ContentSentence   == <<"G","r","e","a","t"," ","t","e","a","m",","," ","g",
      "r","e","a","t"," ","p","r","o","d","u","c","t","."," ">>

\* the elements a page is made of: <title> texts with a job-board suffix
\* and one that is too short, headings, and elements for the other fields
\* whose text passes or fails the field's length test
ElementPool ==
    { Element("title", <<>>, <<>>,
          <<"D","a","t","a"," ","E","n","g","i","n","e","e","r"," ","-"," ",
          "I","n","d","e","e","d">>),
      Element("title", <<>>, <<>>, <<"Q","A">>),
      Element("h1", <<"j","o","b","-","t","i","t","l","e">>, <<>>,
            <<"S","e","n","i","o","r"," ","D","a","t","a"," ","E","n","g","i",
            "n","e","e","r">>),
      Element("h1", <<>>, <<>>, <<" ","M","L"," ">>),
      Element("div", <<"c","o","m","p","a","n","y","-","n","a","m","e">>,
            <<>>, <<"A","c","m","e"," ","C","o","r","p">>),
      Element("span", <<"e","m","p","l","o","y","e","r">>, <<>>, <<"X">>),
      Element("span", <<"j","o","b","-","l","o","c","a","t","i","o","n">>,
            <<>>, <<"B","e","r","l","i","n",","," ","D","E">>),
      Element("div", <<"j","o","b","-","d","e","s","c","r","i","p","t","i",
            "o","n">>, <<>>, DescriptionText),
      Element("div", <<"c","o","n","t","e","n","t"," ","s","u","m","m","a",
            "r","y">>, <<>>, <<"A","p","p","l","y"," ","n","o","w">>),
      Element("main", <<>>, <<>>, Repeat(ContentSentence, 4)),
      Element("article", <<>>, <<>>, Repeat(ContentSentence, 38)),
      Element("div", <<"b","o","x">>,
            <<"r","e","q","u","i","r","e","m","e","n","t","s">>,
            RequirementsText),
      Element("ul", <<"r","e","s","p","o","n","s","i","b","i","l","i","t","i",
            "e","s">>, <<>>, ResponsibilityText) }

\* bound on the number of elements of a page
MaxElements == 2

\* the URLs a posting is fetched from: the three job boards, company sites
\* and a URL without a scheme
UrlPool ==
    { <<"h","t","t","p","s",":","/","/","w","w","w",".","l","i","n","k","e",
          "d","i","n",".","c","o","m","/","j","o","b","s","/","v","i","e","w",
          "/","1">>,
      <<"h","t","t","p","s",":","/","/","i","n","d","e","e","d",".","c","o",
            "m","/","v","i","e","w","j","o","b">>,
      <<"h","t","t","p","s",":","/","/","w","w","w",".","g","l","a","s","s",
            "d","o","o","r",".","c","o","m">>,
      <<"h","t","t","p","s",":","/","/","c","a","r","e","e","r","s",".","a",
            "c","m","e",".","i","o","/","j","o","b","s">>,
      <<"h","t","t","p",":","/","/","w","w","w",".","m","y","-","s","h","o",
            "p",".","o","r","g","/","x">>,
      <<"a","c","m","e",".","c","o","m","/","j","o","b","s">> }

\* the steps of extract_job_info inside its try block: the request and the
\* heuristics called for the fields of job_info
FieldHeuristics ==
    {"title", "company", "location", "description", "requirements",
     "responsibilities", "skills", "experience_level", "employment_type"}
RaisePoints == {"request"} \cup FieldHeuristics

InitJob ==
    /\ pc = "extract"
    /\ job_page \in SeqsUpTo(ElementPool, MaxElements)
    /\ job_url \in UrlPool
    /\ job_info = None
    /\ job_error = None
    /\ MatchUnused /\ RankUnused /\ ResumeUnused /\ SkillsUnused
    /\ CleanUnused /\ AppUnused
    /\ SectionUnused /\ EntryUnused

\* job_info = extractor.extract_job_info(url), returning
ExtractJobInfo ==
    /\ pc = "extract"
    /\ LET info == ExtractFields(job_page, job_url)
       IN  \E skills \in ExtractSkillsFromText(DescriptionAndRequirements(info)) :
               job_info' = Classified(info, skills)
    /\ pc' = "extracted"
    /\ UNCHANGED <<job_page, job_url, job_error, matchVars, rankVars,
                   resumeVars, skillVars, cleanVars, appVars, sectionVars,
                   entryVars>>

\* extract_job_info(url) when a step inside the try block raises: the
\* except clause raises a new exception that carries the message of the
\* first, and no job_info is returned
ExtractJobInfoRaises ==
    /\ pc = "extract"
    /\ \E point \in RaisePoints : job_error' = point
    /\ pc' = "raised"
    /\ UNCHANGED <<job_page, job_url, job_info, matchVars, rankVars,
                   resumeVars, skillVars, cleanVars, appVars, sectionVars,
                   entryVars>>

NextJob == ExtractJobInfo \/ ExtractJobInfoRaises

SpecJob == InitJob /\ [][NextJob]_vars

---------------------------------------------------------------------------
(* The classification steps of extract_job_info on short texts             *)

\* description and requirements texts with keywords of one or several
\* groups, in either case, with none, and with a keyword cut in two by the
\* end of the description
LevelDescriptions ==
    { <<>>, <<"S","e","n","i","o","r"," ","d","e","v">>,
          <<"j","u","n","i","o","r"," ","o","r"," ","l","e","a","d">>,
          <<"3"," ","y","e","a","r","s">>,
      <<"E","x","p","e","r","t",";"," ","F","u","l","l","-","T","i","m","e">>,
            <<"p","a","r","t"," ","t","i","m","e"," ","i","n","t","e","r",
            "n">>, <<"r","e","m","o","t","e"," ","c","o","n","t","r","a","c",
            "t">>,
      <<"1">>, <<"w","o","r","k"," ","f","r","o","m">>,
            <<"n","i","c","e"," ","o","f","f","i","c","e">> }

LevelRequirements ==
    { <<>>, <<"y","e","a","r">>, <<"h","o","m","e">>,
          <<"J","u","n","i","o","r">>,
          <<"c","o","n","t","r","a","c","t","o","r">>,
          <<"1","0","+"," ","y","e","a","r","s">> }

\* job_info after the dict literal, its description and requirements given
InitLevel ==
    /\ pc = "classify"
    /\ job_page = None
    /\ job_url \in UrlPool
    /\ \E description \in LevelDescriptions,
          requirements \in LevelRequirements :
           job_info = [ExtractFields(<<>>, job_url) EXCEPT
                          !.description  = description,
                          !.requirements = requirements]
    /\ job_error = None
    /\ MatchUnused /\ RankUnused /\ ResumeUnused /\ SkillsUnused
    /\ CleanUnused /\ AppUnused
    /\ SectionUnused /\ EntryUnused

\* the three assignments of extract_job_info that follow the dict literal
ClassifyJob ==
    /\ pc = "classify"
    /\ \E skills \in ExtractSkillsFromText(DescriptionAndRequirements(job_info)) :
           job_info' = Classified(job_info, skills)
    /\ pc' = "classified"
    /\ UNCHANGED <<job_page, job_url, job_error, matchVars, rankVars,
                   resumeVars, skillVars, cleanVars, appVars, sectionVars,
                   entryVars>>

NextLevel == ClassifyJob

SpecLevel == InitLevel /\ [][NextLevel]_vars

---------------------------------------------------------------------------
(* Claims about the job extractor                                          *)

\* the <title> element of the page
TitleElement == job_page[SelectOne(job_page, TagIs("title"))]

\* no title-specific selector and no h1 matches an element of the page
OnlyTitleTagMatches ==
    /\ \A k \in 1..6 : SelectOne(job_page, TitleSelectors[k]) = 0
    /\ SelectOne(job_page, TagIs("title")) # 0

\* C12: on a page where no title-specific selector and no h1 matches and
\* whose <title> text is a job title followed by a separator and a known
\* job-board name or a '.com' name, the extracted title is the <title> text
\* with that suffix removed.
C12_TitleSuffixRemoved ==
    pc = "extracted" /\ OnlyTitleTagMatches
        /\ StripBoardSuffix(CleanText(TitleElement.text)) # CleanText(TitleElement.text)
    =>  job_info.title = StripBoardSuffix(CleanText(TitleElement.text))

\* the test each field's loop applies to the length of a candidate
FieldGate ==
    [title |-> 3, location |-> 2, description |-> 50, requirements |-> 20,
     responsibilities |-> 20]

FieldSentinel ==
    [title |-> TitleNotFound, location |-> LocationNotFound,
     description |-> DescriptionNotFound,
           requirements |-> RequirementsNotFound,
     responsibilities |-> ResponsibilitiesNotFound]

\* C13: each of title, location, description, requirements and
\* responsibilities of an extracted job is the field's not-found sentinel or
\* a text longer than the field's minimum length (title > 3, location > 2,
\* description > 50, requirements > 20, responsibilities > 20); it is never
\* empty and never a text that fails the length test.
C13_GateOrSentinel ==
    pc = "extracted" =>
        \A field \in DOMAIN FieldGate :
            \/ job_info[field] = FieldSentinel[field]
            \/ Len(job_info[field]) > FieldGate[field]

\* the company name the fallback is said to give: the brand name of a known
\* job board, else the title-cased first label of the domain without 'www.'
\* and the TLD suffix
ExpectedCompanyName(url) ==
    LET domain == StrLower(Netloc(url))
        boards == {b \in 1..Len(BoardNames) :
                      IsSubstring(BoardNames[b].domain, domain)}
    IN  IF boards # {} THEN BoardNames[MinOf(boards)].name
        ELSE TitleCase(FirstLabel(StrippedDomain(url), "."))

\* C15: when no company element qualifies, the company is the brand name of
\* the job board the URL's domain belongs to ('LinkedIn', 'Indeed',
\* 'Glassdoor'), and for any other domain the title-cased first domain label
\* after removing 'www.' and the TLD suffix.
C15_CompanyFromUrl ==
    pc = "extracted" /\ FirstQualifying(job_page, CompanySelectors, 1,
          2) = <<>>
    =>  job_info.company = ExpectedCompanyName(job_url)

\* C19: an error raised by one field heuristic is not fatal: a job record is
\* returned, the parse is not aborted.
C19_HeuristicErrorNotFatal ==
    ~(pc = "raised" /\ job_error \in FieldHeuristics /\ job_info = None)

---------------------------------------------------------------------------
(* Claims about the classification steps, checked under SpecLevel          *)

\* the lower-cased text scanned for the experience level
LevelTextLower == StrLower(DescriptionAndRequirements(job_info))

\* the names of the experience groups, in their fixed order
LevelNames == << <<"E","n","t","r","y">>, <<"M","i","d">>,
      <<"S","e","n","i","o","r">>, <<"E","x","p","e","r","t">> >>

\* a keyword of experience group g occurs in the scanned text
LevelHit(g) ==
    \E k \in 1..Len(Levels[g].keywords) :
        IsSubstring(Levels[g].keywords[k], LevelTextLower)

\* C16: over the lower-cased text of description plus requirements (joined
\* by a space), experience_level is the first group in the order Entry, Mid,
\* Senior, Expert that has a keyword occurring as a substring, even when
\* keywords of later groups occur too; it is 'Not specified' exactly when no
\* keyword of any group occurs.
C16_FirstLevelGroupWins ==
    pc = "classified" =>
        /\ \A g \in 1..4 :
               LevelHit(g) /\ (\A h \in 1..(g - 1) : ~LevelHit(h))
                   => job_info.experience_level = LevelNames[g]
        /\ job_info.experience_level = NotSpecified
               <=> \A g \in 1..4 : ~LevelHit(g)

\* a Senior keyword in the description and an Entry keyword in the
\* requirements: the level is Entry
C16_Witness ==
    /\ pc = "classified"
    /\ job_info.description = <<"S","e","n","i","o","r"," ","d","e","v">>
    /\ job_info.requirements = <<"J","u","n","i","o","r">>
    /\ job_info.experience_level = <<"E","n","t","r","y">>

\* the names of the employment groups, in their fixed order, with the
\* keywords of each
EmploymentNames ==
    << <<"F","u","l","l","-","t","i","m","e">>,
          <<"P","a","r","t","-","t","i","m","e">>,
          <<"C","o","n","t","r","a","c","t">>,
          <<"I","n","t","e","r","n","s","h","i","p">>,
          <<"R","e","m","o","t","e">> >>

\* a keyword of employment group g occurs in the lower-cased description
EmploymentHit(g) ==
    \E k \in 1..Len(EmploymentTypes[g].keywords) :
        IsSubstring(EmploymentTypes[g].keywords[k],
                    StrLower(job_info.description))

\* C17: employment_type is the first group in the order Full-time,
\* Part-time, Contract, Internship, Remote with a keyword occurring as a
\* substring of the lower-cased description, else 'Not specified'; the
\* requirements text plays no part in it.
C17_EmploymentFromDescriptionOnly ==
    pc = "classified" =>
        /\ \A g \in 1..5 :
               EmploymentHit(g) /\ (\A h \in 1..(g - 1) : ~EmploymentHit(h))
                   => job_info.employment_type = EmploymentNames[g]
        /\ (\A g \in 1..5 : ~EmploymentHit(g))
               => job_info.employment_type = NotSpecified

\* a Contract keyword occurs in the requirements only: the type is not
\* specified
C17_Witness ==
    /\ pc = "classified"
    /\ job_info.description = <<"n","i","c","e"," ","o","f","f","i","c","e">>
    /\ job_info.requirements = <<"c","o","n","t","r","a","c","t","o","r">>
    /\ job_info.employment_type = NotSpecified

---------------------------------------------------------------------------
(* _parse_resume_text on the head of a résumé                              *)

\* lines of the head of a résumé, each of them optional: a name line, an
\* e-mail line, a phone line, a LinkedIn line and a summary heading with its text
NameLines     == { <<>>, <<"J","o","h","n"," ","D","o","e">>,
      <<"j","a","n","e">>,
      <<"D","r","."," ","A","n","n"," ","L","e","e",","," ","P","h","D">> }
EmailLines    == { <<>>, <<"j","o","h","n","@","e","x",".","c","o","m">>,
      <<"M","a","i","l",":"," ","a",".","b","@","x",".","o","r","g",","," ",
      "c","@","y",".","i","o">> }
PhoneLines    == { <<>>, <<"5","5","5","-","1","2","3","-","4","5","6","7">>,
      <<"+","1","-","5","5","5","-","1","2","3","4">> }
LinkedInLines == { <<>>,
      <<"h","t","t","p","s",":","/","/","w","w","w",".","l","i","n","k","e",
      "d","i","n",".","c","o","m","/","i","n","/","j","d","-","1">> }
SummaryLines  == { <<>>,
      <<"S","u","m","m","a","r","y","\n","D","a","t","a"," ","e","n","g","i",
      "n","e","e","r",","," ","5"," ","y","e","a","r","s">> }

\* '\n'.join of the lines that are present
RECURSIVE JoinPresent(_)
JoinPresent(lines) ==
    IF lines = <<>> THEN <<>>
    ELSE IF lines[1] = <<>> THEN JoinPresent(Tail(lines))
    ELSE IF JoinPresent(Tail(lines)) = <<>> THEN lines[1]
    ELSE lines[1] \o <<"\n">> \o JoinPresent(Tail(lines))

ContactTexts ==
    { JoinPresent(lines) :
        lines \in NameLines \X EmailLines \X PhoneLines \X LinkedInLines
                  \X SummaryLines }

InitContact ==
    /\ pc = "parse"
    /\ resume_text \in ContactTexts
    /\ resume_data = None
    /\ MatchUnused /\ RankUnused /\ SkillsUnused /\ CleanUnused
    /\ JobUnused /\ AppUnused
    /\ SectionUnused /\ EntryUnused

SpecContact == InitContact /\ [][NextResume]_vars

---------------------------------------------------------------------------
(* Claims about the scalar fields, checked under SpecContact               *)

\* C14: for every résumé text that contains at least one well-formed e-mail
\* address, the returned email is the first such address in the text; the
\* e-mail sentinel is returned only when the text contains no address.
C14_FirstEmailReturned ==
    pc = "parsed" =>
        /\ ExtractEmail(resume_text) # EmailNotFound
               => resume_data.email = ExtractEmail(resume_text)
        /\ resume_data.email = EmailNotFound
               => ExtractEmail(resume_text) = EmailNotFound

ScalarSentinel ==
    [name |-> NameNotFound, email |-> EmailNotFound, phone |-> PhoneNotFound,
     linkedin |-> LinkedInNotFound, summary |-> SummaryNotFound]

\* C18: for every input text the returned name, email, phone, linkedin and
\* summary are present and non-empty: each is the field's not-found sentinel
\* or a non-empty text taken from the cleaned résumé text (a summary is
\* joined from several of its lines).
C18_ScalarFieldsNeverEmpty ==
    pc = "parsed" =>
        \A field \in DOMAIN ScalarSentinel :
            /\ field \in DOMAIN resume_data
            /\ resume_data[field] # <<>>
            /\ \/ resume_data[field] = ScalarSentinel[field]
               \/ field = "summary"
               \/ IsSubstring(resume_data[field], resume_data.raw_text)

\* a résumé whose first line is no name and which has a phone number: the
\* name, e-mail, LinkedIn and summary are sentinels, the phone is extracted
C18_Witness ==
    /\ pc = "parsed"
    /\ resume_text = <<"j","a","n","e","\n","5","5","5","-","1","2","3","-",
          "4","5","6","7">>
    /\ resume_data.name = NameNotFound
    /\ resume_data.email = EmailNotFound
    /\ resume_data.phone = <<"5","5","5","-","1","2","3","-","4","5","6","7">>
    /\ resume_data.linkedin = LinkedInNotFound
    /\ resume_data.summary = SummaryNotFound

---------------------------------------------------------------------------
(* utils.get_file_extension and utils.validate_file_upload                 *)

\* SUPPORTED_FILE_TYPES
SUPPORTED_FILE_TYPES == <<<<".","p","d","f">>, <<".","d","o","c","x">>,
      <<".","d","o","c">>>>

\* MAX_FILE_SIZE, in bytes
MAX_FILE_SIZE == 10 * 1024 * 1024

\* p.rfind(c) for a one-character c, counted from 1; 0 when c is not in p
RFind(p, c) ==
    LET at == {i \in 1..Len(p) : p[i] = c}
    IN  IF at = {} THEN 0 ELSE MaxOf(at)

\* os.path.splitext(p)[1]: the text from the last dot of the last path
\* component, unless only dots stand before it in that component
SplitExt(p) ==
    LET sepIndex == RFind(p, "/")
        dotIndex == RFind(p, ".")
    IN  IF dotIndex > sepIndex
           /\ \E k \in (sepIndex + 1)..(dotIndex - 1) : p[k] # "."
        THEN SubSeq(p, dotIndex, Len(p))
        ELSE <<>>

\* get_file_extension(filename)
GetFileExtension(filename) == StrLower(SplitExt(filename))

\* the uploaded_file argument when no file was chosen (None)
NoFile == [none |-> TRUE]

\* ', '.join(strings)
RECURSIVE JoinComma(_)
JoinComma(strings) ==
    IF strings = <<>> THEN <<>>
    ELSE IF Len(strings) = 1 THEN strings[1]
    ELSE strings[1] \o <<","," ">> \o JoinComma(Tail(strings))

\* decimal digits of a natural number, as str(n) writes them
DigitChars == <<"0","1","2","3","4","5","6","7","8","9">>

RECURSIVE StrOfNat(_)
StrOfNat(n) ==
    IF n < 10 THEN <<DigitChars[n + 1]>>
    ELSE StrOfNat(n \div 10) \o <<DigitChars[(n % 10) + 1]>>

\* the three error texts
NoFileError == <<"U+8BF7","U+9009","U+62E9","U+6587","U+4EF6">>
FileTypeError == <<"U+4E0D","U+652F","U+6301","U+7684","U+6587","U+4EF6",
      "U+7C7B","U+578B","U+3002","U+652F","U+6301","U+7684","U+7C7B","U+578B",
      ":"," ">> \o JoinComma(SUPPORTED_FILE_TYPES)
FileSizeError ==
    <<"U+6587","U+4EF6","U+5927","U+5C0F","U+8D85","U+8FC7","U+9650","U+5236",
          "U+3002","U+6700","U+5927","U+5141","U+8BB8",":"," ">>
    \o StrOfNat(MAX_FILE_SIZE \div (1024 * 1024)) \o <<"M","B">>

\* validate_file_upload that also rejects a file of exactly MAX_FILE_SIZE
ValidateFileUploadBelowLimit(file) ==
    IF file = NoFile THEN [valid |-> FALSE, error |-> NoFileError]
    ELSE IF GetFileExtension(file.name) \notin Range(SUPPORTED_FILE_TYPES)
    THEN [valid |-> FALSE, error |-> FileTypeError]
    ELSE IF file.size >= MAX_FILE_SIZE
    THEN [valid |-> FALSE, error |-> FileSizeError]
    ELSE [valid |-> TRUE, error |-> NoText]

\* validate_file_upload(uploaded_file); the error None is NoText
ValidateFileUpload(file) ==
    IF file = NoFile THEN [valid |-> FALSE, error |-> NoFileError]
    ELSE IF GetFileExtension(file.name) \notin Range(SUPPORTED_FILE_TYPES)
    THEN [valid |-> FALSE, error |-> FileTypeError]
    ELSE IF file.size > MAX_FILE_SIZE
    THEN [valid |-> FALSE, error |-> FileSizeError]
    ELSE [valid |-> TRUE, error |-> NoText]

\* names and sizes of uploaded files
FileNames ==
    {<<"a",".","p","d","f">>, <<"a",".","P","D","F">>,
          <<"c","v",".","d","o","c","x">>, <<"c","v",".","D","o","c","X">>,
          <<"a",".","d","o","c">>, <<"a",".","t","x","t">>,
     <<"a",".","p","d","f",".","e","x","e">>,
           <<"a",".","t","a","r",".","p","d","f">>, <<"a","p","d","f">>,
           <<".","p","d","f">>, <<".",".","d","o","c">>,
           <<"a",".",".","d","o","c">>,
     <<"x",".","d","/","p","d","f">>, <<"x","/",".","d","o","c","x">>,
           <<"a",".","d","o","c","m">>, <<"a",".","p","d","f"," ">>,
           <<"a",".">>, <<>>}
FileSizes ==
    {0, 1, MAX_FILE_SIZE - 1, MAX_FILE_SIZE, MAX_FILE_SIZE + 1,
     2 * MAX_FILE_SIZE}
UploadedFiles ==
    {NoFile} \cup {[name |-> n, size |-> z] : n \in FileNames, z \in FileSizes}

InitUpload ==
    /\ pc = "validate"
    /\ uploaded_file \in UploadedFiles
    /\ file_validation = None
    /\ session_state = None /\ rendered = None /\ panel = None
    /\ MatchUnused /\ RankUnused /\ ResumeUnused /\ SkillsUnused
    /\ CleanUnused /\ JobUnused /\ SectionUnused /\ EntryUnused

\* file_validation = validate_file_upload(uploaded_resume)
CallValidateFileUpload ==
    /\ pc = "validate"
    /\ file_validation' = ValidateFileUpload(uploaded_file)
    /\ pc' = "validated"
    /\ UNCHANGED <<uploaded_file, session_state, rendered, panel, matchVars,
                   rankVars, resumeVars, skillVars, cleanVars, jobVars,
                         sectionVars,
                   entryVars>>

NextUpload == CallValidateFileUpload

SpecUpload == InitUpload /\ [][NextUpload]_vars

---------------------------------------------------------------------------
(* Claims about validate_file_upload, checked under SpecUpload             *)

\* the name ends, whatever the case of its letters, in one of .pdf, .docx,
\* .doc, and something other than dots stands before that ending in the
\* last path component
EndsInSupportedType(name) ==
    \E ext \in {<<".","p","d","f">>, <<".","d","o","c","x">>,
          <<".","d","o","c">>} :
        LET at == Len(name) - Len(ext) + 1
        IN  /\ at >= 1
            /\ StrLower(SubSeq(name, at, Len(name))) = ext
            /\ \E k \in 1..(at - 1) :
                   /\ name[k] \notin {".", "/"}
                   /\ \A j \in k..(at - 1) : name[j] # "/"

TenMiB == 10485760

\* C21: the upload is valid exactly when a file is present, its extension
\* is .pdf, .docx or .doc whatever the case, and its size is at most 10 MiB
\* (10 MiB itself is accepted); a valid result has no error, an invalid one
\* has the error of the first check that failed, in the order missing
\* file, type, size.
C21_UploadGate ==
    pc = "validated" =>
        LET present == uploaded_file # NoFile
            typed   == present /\ EndsInSupportedType(uploaded_file.name)
            small   == present /\ uploaded_file.size <= TenMiB
        IN  /\ file_validation.valid = (present /\ typed /\ small)
            /\ file_validation.valid => file_validation.error = NoText
            /\ ~present => file_validation.error = NoFileError
            /\ present /\ ~typed => file_validation.error = FileTypeError
            /\ typed /\ ~small => file_validation.error = FileSizeError
            /\ ~file_validation.valid => file_validation.error # NoText

\* a .PDF file of exactly 10 MiB has been accepted
C21_Witness ==
    /\ pc = "validated"
    /\ uploaded_file = [name |-> <<"a",".","P","D","F">>, size |-> TenMiB]
    /\ file_validation.valid

---------------------------------------------------------------------------
(* _extract_sections on texts of several lines                             *)

MaxSectionLines == 4

\* lines of a text: headers of several sections, lines that are in no
\* section's vocabulary and a line of blanks
SectionLinePool ==
    {<<"E","d","u","c","a","t","i","o","n">>,
          <<"W","O","R","K"," ","E","X","P","E","R","I","E","N","C","E">>,
          <<"S","c","h","o","o","l"," ","j","o","b">>,
     <<"M","y"," ","P","r","o","j","e","c","t","s",":">>,
           <<"J","a","n","e"," ","D","o","e">>, <<" ","M","I","T"," ">>,
           <<"2","0","1","9","-","2","0","2","1">>, <<" "," ">>}

SectionTexts ==
    {JoinLines(lines) : lines \in SeqsUpTo(SectionLinePool, MaxSectionLines)}

InitSections ==
    /\ pc = "segment"
    /\ sections_text \in SectionTexts
    /\ extracted_sections = None
    /\ MatchUnused /\ RankUnused /\ ResumeUnused /\ SkillsUnused
    /\ CleanUnused /\ JobUnused /\ AppUnused /\ EntryUnused

\* sections = self._extract_sections(text)
CallExtractSections ==
    /\ pc = "segment"
    /\ extracted_sections' = ExtractSections(sections_text)
    /\ pc' = "segmented"
    /\ UNCHANGED <<sections_text, matchVars, rankVars, resumeVars, skillVars,
                   cleanVars, jobVars, appVars, entryVars>>

NextSections == CallExtractSections

SpecSections == InitSections /\ [][NextSections]_vars

---------------------------------------------------------------------------
(* Claims about _extract_sections, checked under SpecSections              *)

\* the lines of the text that are not blank, without their outer blanks
TextLines ==
    LET raw == SplitLines(sections_text)
    IN  SelectSeq([i \in 1..Len(raw) |-> Strip(raw[i])], LAMBDA l : l # <<>>)

\* the line has a keyword of the section, whatever the case of its letters
HasKeywordOf(name, line) ==
    \E k \in 1..Len(SectionKeywords[name]) :
        IsSubstring(SectionKeywords[name][k], StrLower(line))

\* the line is a header: it has a keyword of some section
IsHeader(line) == \E name \in Range(SectionNames) : HasKeywordOf(name, line)

\* the section a header line opens: the first one, in the order education,
\* experience, skills, projects, contact, that has a keyword in the line
HeaderSection(line) ==
    SectionNames[MinOf({k \in 1..Len(SectionNames) :
                           HasKeywordOf(SectionNames[k], line)})]

\* the lines that follow header line i of lines, up to the next header or
\* the end
ContentAfter(lines, i) ==
    LET later == {j \in (i + 1)..Len(lines) : IsHeader(lines[j])}
        stop  == IF later = {} THEN Len(lines) + 1 ELSE MinOf(later)
    IN  SubSeq(lines, i + 1, stop - 1)

\* C22: every typed bucket is exactly the lines, in order, between one
\* occurrence of its section's header and the next header or the end of the
\* text; so lines before the first header are in no typed bucket and no
\* bucket joins the lines of two occurrences of a header.
C22_BucketIsOneOccurrence ==
    pc = "segmented" =>
        LET lines == TextLines
        IN  \A name \in DOMAIN extracted_sections \ {"general"} :
                \E i \in 1..Len(lines) :
                    /\ IsHeader(lines[i])
                    /\ HeaderSection(lines[i]) = name
                    /\ extracted_sections[name]
                           = JoinLines(ContentAfter(lines, i))

\* the Education header occurs twice, each time followed by a line, and a
\* line precedes the first header
C22_Witness ==
    /\ pc = "segmented"
    /\ sections_text
           = JoinLines(<<<<"J","a","n","e"," ","D","o","e">>,
                 <<"E","d","u","c","a","t","i","o","n">>,
                 <<" ","M","I","T"," ">>,
                 <<"E","d","u","c","a","t","i","o","n">>>>)
    /\ extracted_sections = [education |-> <<"M","I","T">>]

\* C27: no line of any returned bucket contains a section keyword, whatever
\* the case of its letters (such a line is consumed as a header); the
\* lines after the last header are filed under the first section, in dict
\* order, with a keyword in that header; and no line of the education bucket
\* contains university, college, school or degree.
C27_HeadersInNoBucket ==
    pc = "segmented" =>
        LET lines   == TextLines
            headers == {i \in 1..Len(lines) : IsHeader(lines[i])}
        IN  /\ \A name \in DOMAIN extracted_sections :
                   \A line \in Range(SplitLines(extracted_sections[name])) :
                       ~IsHeader(line)
            /\ headers # {} /\ MaxOf(headers) < Len(lines) =>
                   LET name == HeaderSection(lines[MaxOf(headers)])
                   IN  /\ name \in DOMAIN extracted_sections
                       /\ extracted_sections[name]
                              = JoinLines(ContentAfter(lines, MaxOf(headers)))
            /\ \A line \in Range(SplitLines(SectionText(extracted_sections,
                                                        "education"))) :
                   \A word \in {<<"u","n","i","v","e","r","s","i","t","y">>,
                         <<"c","o","l","l","e","g","e">>,
                         <<"s","c","h","o","o","l">>,
                                <<"d","e","g","r","e","e">>} :
                       ~IsSubstring(word, StrLower(line))

\* an upper-case header and a line with keywords of two sections were
\* consumed, and the lines after the latter went to education
C27_Witness ==
    /\ pc = "segmented"
    /\ sections_text
           = JoinLines(<<<<"W","O","R","K"," ","E","X","P","E","R","I","E",
                 "N","C","E">>, <<"2","0","1","9","-","2","0","2","1">>,
                 <<"S","c","h","o","o","l"," ","j","o","b">>,
                 <<" ","M","I","T"," ">>>>)
    /\ extracted_sections = [experience |-> <<"2","0","1","9","-","2","0","2",
          "1">>, education |-> <<"M","I","T">>]

---------------------------------------------------------------------------
(* The entry state machines, one loop iteration at a time                  *)

MaxEntryLines == 3

EntryKinds == {"education", "experience", "projects"}

\* one iteration of the loop of _extract_education, _extract_experience or
\* _extract_projects on a stripped, non-empty line
EntryStep(kind, st, line) ==
    CASE kind = "education"  -> EducationStep(st, line)
      [] kind = "experience" -> ExperienceStep(st, line)
      [] kind = "projects"   -> ProjectStep(st, line)

\* lines of a bucket of each kind: trigger lines, lines for each field, a
\* line of exactly 20 characters and a line that matches nothing
EntryLinePool ==
    [education  |-> {<<"M","I","T"," ","U","n","i","v","e","r","s","i","t",
          "y">>, <<"S","t","a","t","e"," ","C","o","l","l","e","g","e">>,
          <<"B","S","c"," ","d","e","g","r","e","e">>,
                     <<"M","a","s","t","e","r"," ","o","f"," ","A","r","t",
                           "s">>, <<"2","0","2","0">>,
                           <<"G","P","A"," ","3",".","9">>, <<"n","/","a">>},
     experience |-> {<<"2","0","1","9","-","2","0","2","1">>,
           <<"2","0","2","1"," ","-"," ","P","r","e","s","e","n","t">>,
           <<"S","e","n","i","o","r"," ","E","n","g","i","n","e","e","r">>,
                     <<"A","n","a","l","y","s","t">>,
                           <<"w","w","w",".","a","c","m","e",".","i","o">>,
                           <<"B","u","i","l","t"," ","t","h","e"," ","d","a",
                           "t","a"," ","t","o","o","l","s">>,
                     <<"L","e","d"," ","a"," ","t","e","a","m"," ","o","f",
                           " ","f","i","v","e"," ","p","e","o","p","l","e">>,
                           <<" ">>},
     projects   |-> {<<"C","h","a","t"," ","A","p","p">>,
           <<"B","u","i","l","d"," ","T","o","o","l">>,
           <<"g","i","t","h","u","b",".","c","o","m","/","m","e","/","c","h",
           "a","t">>,
                     <<"g","i","t","l","a","b",".","c","o","m","/","m","e",
                           "/","c","h","a","t">>,
                           <<"A"," ","l","o","n","g"," ","d","e","s","c","r",
                           "i","p","t","i","o","n"," ","o","f"," ","t","h",
                           "e"," ","w","o","r","k">>,
                     <<"M","o","r","e"," ","w","o","r","d","s"," ","a","b",
                           "o","u","t"," ","t","h","e"," ","s","a","m","e",
                           " ","w","o","r","k">>, <<"m","i","s","c">>}]

InitEntries ==
    /\ pc = "loop"
    /\ entry_kind \in EntryKinds
    /\ \E lines \in SeqsUpTo(EntryLinePool[entry_kind], MaxEntryLines) :
           entry_lines = SplitLines(JoinLines(lines))
    /\ entry_index = 0
    /\ entry_state = NoEntries
    /\ entry_result = None
    /\ MatchUnused /\ RankUnused /\ ResumeUnused /\ SkillsUnused
    /\ CleanUnused /\ JobUnused /\ AppUnused /\ SectionUnused

\* if not text: return []
ExtractEntriesOfNoText ==
    /\ pc = "loop"
    /\ entry_index = 0
    /\ JoinLines(entry_lines) = <<>>
    /\ entry_result' = <<>>
    /\ pc' = "returned"
    /\ UNCHANGED <<entry_kind, entry_lines, entry_index, entry_state,
                   matchVars, rankVars, resumeVars, skillVars, cleanVars,
                   jobVars, appVars, sectionVars>>

\* one iteration of  for line in lines
ExtractEntriesLoop ==
    /\ pc = "loop"
    /\ JoinLines(entry_lines) # <<>>
    /\ entry_index < Len(entry_lines)
    /\ LET line == Strip(entry_lines[entry_index + 1])
       IN  entry_state' = IF line = <<>> THEN entry_state
                          ELSE EntryStep(entry_kind, entry_state, line)
    /\ entry_index' = entry_index + 1
    /\ UNCHANGED <<pc, entry_kind, entry_lines, entry_result, matchVars,
                   rankVars, resumeVars, skillVars, cleanVars, jobVars,
                   appVars, sectionVars>>

\* after the loop: the in-progress record is appended and the list returned
ExtractEntriesReturn ==
    /\ pc = "loop"
    /\ JoinLines(entry_lines) # <<>>
    /\ entry_index = Len(entry_lines)
    /\ entry_result' = Flushed(entry_state)
    /\ pc' = "returned"
    /\ UNCHANGED <<entry_kind, entry_lines, entry_index, entry_state,
                   matchVars, rankVars, resumeVars, skillVars, cleanVars,
                   jobVars, appVars, sectionVars>>

NextEntries ==
    ExtractEntriesOfNoText \/ ExtractEntriesLoop \/ ExtractEntriesReturn

SpecEntries == InitEntries /\ [][NextEntries]_vars

---------------------------------------------------------------------------
(* Claims about the entry state machines, checked under SpecEntries        *)

\* the loop has just handled a line without starting a new record
SameRecordStep ==
    /\ pc = "loop" /\ pc' = "loop"
    /\ entry_index' = entry_index + 1
    /\ entry_state'.list = entry_state.list
    /\ DOMAIN entry_state.current # {}

\* old is the beginning of new
IsPrefix(old, new) ==
    Len(old) <= Len(new) /\ SubSeq(new, 1, Len(old)) = old

\* C23: within the current record a field that is set is never overwritten
\* by a later line; only description changes, and only by being extended.
C23_SetFieldsKept ==
    [][SameRecordStep =>
          \A field \in DOMAIN entry_state.current :
              /\ field \in DOMAIN entry_state'.current
              /\ IF field = "description"
                 THEN IsPrefix(entry_state.current[field],
                               entry_state'.current[field])
                 ELSE entry_state'.current[field]
                          = entry_state.current[field]]_vars

\* the stripped, non-empty lines of the bucket
BucketLines ==
    SelectSeq([i \in 1..Len(entry_lines) |-> Strip(entry_lines[i])],
              LAMBDA l : l # <<>>)

\* the line starts a new record of the kind
IsTrigger(kind, line) ==
    CASE kind = "education"  -> HasWord(StrLower(line), InstitutionWords)
      [] kind = "experience" -> HasYearRange(line)
      [] kind = "projects"   -> HasWord(StrLower(line), ProjectWords)

\* the field of a record that holds its trigger line
TriggerField ==
    [education |-> "institution", experience |-> "period", projects |-> "name"]

\* the line is no trigger and sets a field of a record of the kind
SetsField(kind, line) ==
    /\ ~IsTrigger(kind, line)
    /\ CASE kind = "education" ->
                \/ \E w \in {<<"d","e","g","r","e","e">>,
                      <<"b","a","c","h","e","l","o","r">>,
                      <<"m","a","s","t","e","r">>, <<"g","p","a">>} :
                       IsSubstring(w, StrLower(line))
                \/ HasYear(line)
         [] kind = "experience" ->
                \/ \E k \in 1..Len(TitleKeywords) :
                       IsSubstring(TitleKeywords[k], StrLower(line))
                \/ "@" \in Range(line)
                \/ IsSubstring(<<"w","w","w",".">>, line)
                \/ Len(line) > 20 /\ ~HasYear(line)
         [] kind = "projects" ->
                \/ IsSubstring(<<"g","i","t","h","u","b",".","c","o","m">>,
                      line)
                \/ IsSubstring(<<"g","i","t","l","a","b",".","c","o","m">>,
                      line)
                \/ Len(line) > 20

\* C24: one record per trigger line, in the order of the trigger lines, plus
\* a first record when a field-setting line comes before the first trigger
\* line; the in-progress record is part of the result and no record is
\* empty.
C24_OneRecordPerTrigger ==
    pc = "returned" =>
        LET lines    == BucketLines
            triggers == {i \in 1..Len(lines) : IsTrigger(entry_kind, lines[i])}
            first    == IF triggers = {} THEN Len(lines) + 1
                        ELSE MinOf(triggers)
            lead     == IF \E i \in 1..(first - 1) :
                               SetsField(entry_kind, lines[i])
                        THEN 1 ELSE 0
            nth(k)   == CHOOSE i \in triggers :
                            Cardinality({j \in triggers : j < i}) = k - 1
        IN  /\ Len(entry_result) = Cardinality(triggers) + lead
            /\ \A r \in 1..Len(entry_result) : DOMAIN entry_result[r] # {}
            /\ \A k \in 1..Cardinality(triggers) :
                   /\ TriggerField[entry_kind] \in DOMAIN entry_result[k + lead]
                   /\ entry_result[k + lead][TriggerField[entry_kind]]
                          = lines[nth(k)]
            /\ lead = 1 => TriggerField[entry_kind] \notin DOMAIN entry_result[1]

\* a title line, then two year-range lines: three records, the last one
\* being the record in progress when the bucket ended
C24_Witness ==
    /\ pc = "returned"
    /\ entry_kind = "experience"
    /\ BucketLines = <<<<"A","n","a","l","y","s","t">>,
          <<"2","0","1","9","-","2","0","2","1">>,
          <<"2","0","2","1"," ","-"," ","P","r","e","s","e","n","t">>>>
    /\ entry_result = <<[title |-> <<"A","n","a","l","y","s","t">>],
          [period |-> <<"2","0","1","9","-","2","0","2","1">>],
                        [period |-> <<"2","0","2","1"," ","-"," ","P","r","e",
                              "s","e","n","t">>]>>

\* the line is in no pattern of _extract_experience that comes before the
\* description
PlainExperienceLine(line) ==
    /\ ~HasYearRange(line)
    /\ \A k \in 1..Len(TitleKeywords) :
           ~IsSubstring(TitleKeywords[k], StrLower(line))
    /\ "@" \notin Range(line)
    /\ ~IsSubstring(<<"w","w","w",".">>, line)

\* C25: a line of the experience bucket of at least 20 characters that
\* matches none of the year-range, job-title and company patterns is
\* appended to the description of the current record.
C25_LongLineAppended ==
    [][/\ pc = "loop" /\ pc' = "loop"
       /\ entry_kind = "experience"
       /\ entry_index' = entry_index + 1
       /\ Len(Strip(entry_lines[entry_index'])) >= 20
       /\ PlainExperienceLine(Strip(entry_lines[entry_index']))
       => /\ "description" \in DOMAIN entry_state'.current
          /\ entry_state'.current["description"]
                 = IF "description" \in DOMAIN entry_state.current
                   THEN entry_state.current["description"] \o <<" ">>
                            \o Strip(entry_lines[entry_index'])
                   ELSE Strip(entry_lines[entry_index'])]_vars

---------------------------------------------------------------------------
(* _parse_resume_text on a whole résumé                                    *)

\* the projects part of a résumé, when it has one
ProjectBlocks ==
    {<<>>, <<"P","r","o","j","e","c","t","s","\n","C","h","a","t"," ","A","p",
          "p","\n","A"," ","l","o","n","g"," ","d","e","s","c","r","i","p",
          "t","i","o","n"," ","o","f"," ","t","h","e"," ","w","o","r","k">>,
     <<"P","O","R","T","F","O","L","I","O","\t","a","n","d"," ","m","o","r",
           "e","\\","r","\n","B","u","i","l","d"," ","T","o","o","l","\n","g",
           "i","t","h","u","b",".","c","o","m","/","m","e","/","t","o","o",
           "l">>}

\* a summary heading with its text, the education and experience parts and
\* the projects part
WholeTexts ==
    {JoinPresent(<<summary, body, projects>>) :
        summary \in SummaryLines, body \in ResumeTexts,
        projects \in ProjectBlocks}

InitWhole ==
    /\ pc = "parse"
    /\ resume_text \in WholeTexts
    /\ resume_data = None
    /\ MatchUnused /\ RankUnused /\ SkillsUnused /\ CleanUnused
    /\ JobUnused /\ AppUnused /\ SectionUnused /\ EntryUnused

SpecWhole == InitWhole /\ [][NextResume]_vars

---------------------------------------------------------------------------
(* Claims about _parse_resume_text, checked under SpecWhole                *)

\* C26: the text is normalised as a whole before it is split into lines:
\* raw_text has no line break and no white space other than the blank, the
\* education, experience and projects lists are empty and the summary is
\* the not-found sentinel.
C26_OneLineNothingExtracted ==
    pc = "parsed" =>
        /\ \A i \in 1..Len(resume_data.raw_text) :
               IsSpace(resume_data.raw_text[i])
                   => resume_data.raw_text[i] = " "
        /\ resume_data.education = <<>>
        /\ resume_data.experience = <<>>
        /\ resume_data.projects = <<>>
        /\ resume_data.summary = SummaryNotFound

\* a text with a summary, an education, an experience and a projects part,
\* each on lines of its own, has been parsed
C26_Witness ==
    /\ pc = "parsed"
    /\ resume_text =
           <<"S","u","m","m","a","r","y","\n","D","a","t","a"," ","e","n","g",
                 "i","n","e","e","r",","," ","5"," ","y","e","a","r","s","\n",
                 "E","d","u","c","a","t","i","o","n","\n","M","I","T","\n",
                 "2","0","2","0","\n","E","x","p","e","r","i","e","n","c","e",
                 "\n","D","a","t","a"," ","A","n","a","l","y","s","t","\n",
                 "2","0","1","9","-","2","0","2","1","\n","P","r","o","j","e",
                 "c","t","s","\n","C","h","a","t"," ","A","p","p","\n","A",
                 " ","l","o","n","g"," ","d","e","s","c","r","i","p","t","i",
                 "o","n"," ","o","f"," ","t","h","e"," ","w","o","r","k">>
    /\ resume_data.raw_text =
           <<"S","u","m","m","a","r","y"," ","D","a","t","a"," ","e","n","g",
                 "i","n","e","e","r",","," ","5"," ","y","e","a","r","s"," ",
                 "E","d","u","c","a","t","i","o","n"," ","M","I","T"," ","2",
                 "0","2","0"," ","E","x","p","e","r","i","e","n","c","e"," ",
                 "D","a","t","a"," ","A","n","a","l","y","s","t"," ","2","0",
                 "1","9","-","2","0","2","1"," ","P","r","o","j","e","c","t",
                 "s"," ","C","h","a","t"," ","A","p","p"," ","A"," ","l","o",
                 "n","g"," ","d","e","s","c","r","i","p","t","i","o","n"," ",
                 "o","f"," ","t","h","e"," ","w","o","r","k">>
    /\ resume_data.summary = SummaryNotFound

---------------------------------------------------------------------------
(* app.main: the skill match panel, next to get_skill_matches              *)

\* f"{x:.1f}" for x = num/den, in tenths: the tenth nearest to the ratio,
\* half to even
RoundTenths(num, den) ==
    LET q == (10 * num) \div den
        r == (10 * num) % den
    IN  IF 2 * r < den THEN q
        ELSE IF 2 * r > den THEN q + 1
        ELSE IF q % 2 = 0 THEN q ELSE q + 1

\* the panel with set(job_skills) | set(resume_skills) for matched_skills
SkillPanelOfUnion(jobs, resumes) ==
    LET matched_skills == Range(jobs) \cup Range(resumes)
    IN  [matched_skills   |-> matched_skills,
         match_percentage |-> [num |-> 100 * Cardinality(matched_skills),
                               den |-> Len(jobs)],
         shown_percentage |-> RoundTenths(100 * Cardinality(matched_skills),
                                          Len(jobs)),
         shown_matched    |-> Cardinality(matched_skills),
         shown_missing    |-> Len(jobs) - Cardinality(matched_skills)]

\* the skill match panel for two non-empty lists: matched_skills, the value
\* of match_percentage as the ratio num/den, and the three metrics shown
SkillPanel(jobs, resumes) ==
    LET matched_skills == Range(jobs) \cap Range(resumes)
    IN  [matched_skills   |-> matched_skills,
         match_percentage |-> [num |-> 100 * Cardinality(matched_skills),
                               den |-> Len(jobs)],
         shown_percentage |-> RoundTenths(100 * Cardinality(matched_skills),
                                          Len(jobs)),
         shown_matched    |-> Cardinality(matched_skills),
         shown_missing    |-> Len(jobs) - Cardinality(matched_skills)]

\* the panel is not drawn
NoPanel == [matched_skills |-> {}]

MaxPanelSkills == 3

\* skill strings of the two lists:  "a", "A", "ab", "c"
PanelSkillPool == {<<"a">>, <<"A">>, <<"a","b">>, <<"c">>}

InitPanel ==
    /\ pc = "render"
    /\ job_skills \in SeqsUpTo(PanelSkillPool, MaxPanelSkills)
    /\ resume_skills \in SeqsUpTo(PanelSkillPool, MaxPanelSkills - 1)
    /\ skill_matches = None
    /\ panel = None
    /\ uploaded_file = None /\ file_validation = None
    /\ session_state = None /\ rendered = None
    /\ RankUnused /\ ResumeUnused /\ SkillsUnused /\ CleanUnused
    /\ JobUnused /\ SectionUnused /\ EntryUnused

\* the panel block of main when both skill lists are non-empty
RenderSkillPanel ==
    /\ pc = "render"
    /\ job_skills # <<>> /\ resume_skills # <<>>
    /\ panel' = SkillPanel(job_skills, resume_skills)
    /\ pc' = "match"
    /\ UNCHANGED <<uploaded_file, file_validation, session_state, rendered,
                   matchVars, rankVars, resumeVars, skillVars, cleanVars,
                   jobVars, sectionVars, entryVars>>

\* the panel block of main when one of the skill lists is empty
SkipSkillPanel ==
    /\ pc = "render"
    /\ job_skills = <<>> \/ resume_skills = <<>>
    /\ panel' = NoPanel
    /\ pc' = "match"
    /\ UNCHANGED <<uploaded_file, file_validation, session_state, rendered,
                   matchVars, rankVars, resumeVars, skillVars, cleanVars,
                   jobVars, sectionVars, entryVars>>

NextPanel == RenderSkillPanel \/ SkipSkillPanel \/ CallGetSkillMatches

SpecPanel == InitPanel /\ [][NextPanel]_vars

---------------------------------------------------------------------------
(* Claims about the two matchers, checked under SpecPanel                  *)

\* both matchers have run on two non-empty lists
BothMatched == pc = "matched" /\ panel # NoPanel

\* C30 as stated: every skill the panel counts as matched is in
\* get_skill_matches' matched_skills, and the panel's matched count and
\* percentage never exceed those of get_skill_matches.
C30_PanelWithinSkillMatches ==
    BothMatched =>
        /\ panel.matched_skills \subseteq Range(skill_matches.matched_skills)
        /\ panel.shown_matched <= Len(skill_matches.matched_skills)
        /\ 100 * panel.match_percentage.num
               <= skill_matches.match_percentage * panel.match_percentage.den

\* C30 amended: every skill the panel counts as matched is, lower-cased and
\* trimmed, in get_skill_matches' matched_skills; the panel's matched count
\* never exceeds that of get_skill_matches, and neither does its percentage
\* once rounded to two decimals as get_skill_matches rounds its own.
C30_PanelWithinNormalisedMatches ==
    BothMatched =>
        /\ \A skill \in panel.matched_skills :
               Strip(StrLower(skill)) \in Range(skill_matches.matched_skills)
        /\ panel.shown_matched <= Len(skill_matches.matched_skills)
        /\ RoundHundredths(panel.match_percentage.num,
                           panel.match_percentage.den)
               <= skill_matches.match_percentage

\* job ["A", "a"] against résumé ["A"]: the panel counts "A" only, 50.0 %,
\* get_skill_matches counts both job skills, 100.0
C30_Witness ==
    /\ BothMatched
    /\ job_skills = <<<<"A">>, <<"a">>>>
    /\ resume_skills = <<<<"A">>>>
    /\ panel.matched_skills = {<<"A">>}
    /\ panel.shown_percentage = 500
    /\ skill_matches.matched_skills = <<<<"a">>, <<"a">>>>
    /\ skill_matches.match_percentage = 10000

---------------------------------------------------------------------------
(* utils.validate_url, utils.create_session_state and app.main             *)

\* urlparse(url).scheme
UrlScheme(url) ==
    LET i == Find(url, <<":">>, 1)
    IN  IF i > 1 /\ IsCased(url[1]) /\ \A k \in 1..(i - 1) : url[k] \in SchemeChars
        THEN StrLower(SubSeq(url, 1, i - 1))
        ELSE <<>>

\* validate_url(url): urlparse raising ValueError gives False
ValidateUrl(url) ==
    /\ ~NetlocInvalid(url)
    /\ UrlScheme(url) # <<>>
    /\ Netloc(url) # <<>>

\* None as the value of a key of st.session_state
Unset == [none |-> TRUE]

\* create_session_state() on a new session, with the generated_emails
\* counter the sidebar adds
NewSession ==
    [job_data |-> Unset, resume_data |-> Unset, generated_email |-> Unset,
     generated_emails |-> 0]

\* the texts of st.error / st.success; cause stands for str(e) of the
\* exception that was caught
Cause == <<"...">>
DisplayError(error_message) == <<"U+274C"," ">> \o error_message
DisplaySuccess(message) == <<"U+2705"," ">> \o message
MissingInputError == DisplayError(<<"U+8BF7","U+63D0","U+4F9B","U+804C",
      "U+4F4D","U","R","L","U+548C","U+7B80","U+5386","U+6587","U+4EF6">>)
InvalidUrlError == DisplayError(<<"U+8BF7","U+8F93","U+5165","U+6709",
      "U+6548","U+7684","U","R","L">>)
JobFailure == DisplayError(<<"U+5904","U+7406","U+5931","U+8D25",":",
      " ">> \o <<"U+63D0","U+53D6","U+804C","U+4F4D","U+4FE1","U+606F",
      "U+5931","U+8D25",":"," ">> \o Cause)
ResumeFailure == DisplayError(<<"U+5904","U+7406","U+5931","U+8D25",":",
      " ">> \o <<"U+89E3","U+6790","U+7B80","U+5386","U+5931","U+8D25",":",
      " ">> \o Cause)
ProcessingDone == DisplaySuccess(<<"U+4FE1","U+606F","U+63D0","U+53D6",
      "U+5B8C","U+6210","U+FF01">>)
GenerationFailure == DisplayError(<<"U+90AE","U+4EF6","U+751F","U+6210",
      "U+5931","U+8D25",":"," ">> \o Cause)
GenerationDone == DisplaySuccess(<<"U+90AE","U+4EF6","U+751F","U+6210",
      "U+5B8C","U+6210","U+FF01">>)
MissingKeyError == <<"U+26A0","U+FE0F"," ","U+8BF7","U+63D0","U+4F9B","O","p",
      "e","n","A","I"," ","A","P","I","U+5BC6","U+94A5">>

\* the dict extract_job_info returns for the url, and the dict parse_resume
\* returns for the file, in script run number run
JobData(url, run) == [url |-> url, run |-> run]
ResumeData(file, run) ==
    [filename |-> file.name, file_size |-> file.size, run |-> run]

\* the process button that stores job_data and resume_data only when both
\* steps succeeded
ProcessOutcomeAllOrNothing(session, url, file, job_ok, resume_ok, run) ==
    IF url = <<>> \/ file = NoFile
    THEN [session |-> session, message |-> MissingInputError, stopped |-> TRUE]
    ELSE IF ~ValidateUrl(url)
    THEN [session |-> session, message |-> InvalidUrlError, stopped |-> TRUE]
    ELSE IF ~ValidateFileUpload(file).valid
    THEN [session |-> session,
          message |-> DisplayError(ValidateFileUpload(file).error),
          stopped |-> TRUE]
    ELSE IF ~job_ok
    THEN [session |-> session, message |-> JobFailure, stopped |-> TRUE]
    ELSE IF ~resume_ok
    THEN [session |-> session, message |-> ResumeFailure, stopped |-> TRUE]
    ELSE [session |-> [session EXCEPT !.job_data = JobData(url, run),
                                      !.resume_data = ResumeData(file, run)],
          message |-> ProcessingDone, stopped |-> FALSE]

\* the process button that also forgets the e-mail generated before
ProcessOutcomeClearsEmail(session, url, file, job_ok, resume_ok, run) ==
    IF url = <<>> \/ file = NoFile
    THEN [session |-> session, message |-> MissingInputError, stopped |-> TRUE]
    ELSE IF ~ValidateUrl(url)
    THEN [session |-> session, message |-> InvalidUrlError, stopped |-> TRUE]
    ELSE IF ~ValidateFileUpload(file).valid
    THEN [session |-> session,
          message |-> DisplayError(ValidateFileUpload(file).error),
          stopped |-> TRUE]
    ELSE IF ~job_ok
    THEN [session |-> session, message |-> JobFailure, stopped |-> TRUE]
    ELSE IF ~resume_ok
    THEN [session |-> [session EXCEPT !.job_data = JobData(url, run)],
          message |-> ResumeFailure, stopped |-> TRUE]
    ELSE [session |-> [session EXCEPT !.job_data = JobData(url, run),
                                      !.resume_data = ResumeData(file, run),
                                      !.generated_email = Unset],
          message |-> ProcessingDone, stopped |-> FALSE]

\* the body of  if st.button("开始处理"): the session afterwards, the message
\* shown and whether main returned; job_ok and resume_ok tell whether
\* extract_job_info and parse_resume return or raise
ProcessOutcome(session, url, file, job_ok, resume_ok, run) ==
    IF url = <<>> \/ file = NoFile
    THEN [session |-> session, message |-> MissingInputError, stopped |-> TRUE]
    ELSE IF ~ValidateUrl(url)
    THEN [session |-> session, message |-> InvalidUrlError, stopped |-> TRUE]
    ELSE IF ~ValidateFileUpload(file).valid
    THEN [session |-> session,
          message |-> DisplayError(ValidateFileUpload(file).error),
          stopped |-> TRUE]
    ELSE IF ~job_ok
    THEN [session |-> session, message |-> JobFailure, stopped |-> TRUE]
    ELSE IF ~resume_ok
    THEN [session |-> [session EXCEPT !.job_data = JobData(url, run)],
          message |-> ResumeFailure, stopped |-> TRUE]
    ELSE [session |-> [session EXCEPT !.job_data = JobData(url, run),
                                      !.resume_data = ResumeData(file, run)],
          message |-> ProcessingDone, stopped |-> FALSE]

\* the styles of generate_multiple_versions, which are those of the sidebar
Styles == <<"professional","casual","enthusiastic">>

\* the dict generate_cold_email returns; what the subject, the content and
\* the context are drawn from stands for them
ColdEmail(session, style) ==
    [generated_from |-> [job_data    |-> session.job_data,
                         resume_data |-> session.resume_data],
     style |-> style]

\* generate_multiple_versions: the versions whose generate_cold_email call
\* did not raise, in the order of the styles
MultipleVersions(session, failed) ==
    LET kept == SelectSeq(<<1, 2, 3>>, LAMBDA i : Styles[i] \notin failed)
    IN  [k \in 1..Len(kept) |->
            [generated_from |-> [job_data    |-> session.job_data,
                                 resume_data |-> session.resume_data],
             style      |-> Styles[kept[k]],
             version    |-> kept[k],
             style_name |-> Styles[kept[k]]]]

\* the body of  if st.button("生成个性化邮件"): client_ok tells whether
\* EmailGenerator(api_key) returns, failed holds the styles for which
\* generate_cold_email raises
GenerateOutcome(session, multiple, email_style, client_ok, failed) ==
    IF ~client_ok \/ (~multiple /\ email_style \in failed)
    THEN [session |-> session, message |-> GenerationFailure]
    ELSE [session |->
              [session EXCEPT
                  !.generated_email =
                      [versions |->
                          IF multiple THEN MultipleVersions(session, failed)
                          ELSE <<ColdEmail(session, email_style)>>],
                  !.generated_emails = @ + 1],
          message |-> GenerationDone]

\* the e-mail versions the block under  if st.session_state.generated_email
\* draws when main gets there
ShownEmails(session) ==
    IF /\ session.job_data # Unset
       /\ session.resume_data # Unset
       /\ session.generated_email # Unset
    THEN session.generated_email.versions
    ELSE <<>>

MaxRuns == 3

\* values of the URL field and of the file uploader
AppUrls == {<<>>, <<"a","c","m","e">>,
      <<"h","t","t","p","s",":","/","/","a","c","m","e",".","i","o","/","j",
      "o","b","s","/","1">>}
AppFiles ==
    {NoFile, [name |-> <<"c","v",".","t","x","t">>, size |-> 1],
          [name |-> <<"c","v",".","p","d","f">>, size |-> 1]}

\* rendered describes the last script run: its number, the button clicked,
\* the checkbox, the message shown, whether main returned early and the
\* e-mail versions drawn
InitApp ==
    /\ pc = "app"
    /\ job_url = <<>>
    /\ uploaded_file = NoFile
    /\ file_validation = None
    /\ session_state = NewSession
    /\ rendered = [run |-> 0, clicked |-> "none", multiple |-> FALSE,
                   message |-> <<>>, stopped |-> FALSE, emails |-> <<>>]
    /\ panel = None
    /\ job_page = None /\ job_info = None /\ job_error = None
    /\ MatchUnused /\ RankUnused /\ ResumeUnused /\ SkillsUnused
    /\ CleanUnused /\ SectionUnused /\ EntryUnused

\* a script run in which the process button was clicked
StartProcessing ==
    /\ pc = "app"
    /\ rendered.run < MaxRuns
    /\ \E url \in AppUrls, file \in AppFiles, job_ok \in BOOLEAN,
          resume_ok \in BOOLEAN :
           LET out == ProcessOutcome(session_state, url, file, job_ok,
                                     resume_ok, rendered.run + 1)
           IN  /\ job_url' = url
               /\ uploaded_file' = file
               /\ session_state' = out.session
               /\ rendered' = [run      |-> rendered.run + 1,
                               clicked  |-> "process",
                               multiple |-> rendered.multiple,
                               message  |-> out.message,
                               stopped  |-> out.stopped,
                               emails   |-> IF out.stopped THEN <<>>
                                            ELSE ShownEmails(out.session)]
    /\ UNCHANGED <<pc, file_validation, panel, job_page, job_info, job_error,
                   matchVars, rankVars, resumeVars, skillVars, cleanVars,
                   sectionVars, entryVars>>

\* a script run in which the generate button was clicked; the button is
\* there only when job_data and resume_data are set
GenerateEmail ==
    /\ pc = "app"
    /\ rendered.run < MaxRuns
    /\ session_state.job_data # Unset
    /\ session_state.resume_data # Unset
    /\ \E multiple \in BOOLEAN, email_style \in Range(Styles),
          client_ok \in BOOLEAN, failed \in SUBSET Range(Styles) :
           LET out == GenerateOutcome(session_state, multiple, email_style,
                                      client_ok, failed)
           IN  /\ session_state' = out.session
               /\ rendered' = [run      |-> rendered.run + 1,
                               clicked  |-> "generate",
                               multiple |-> multiple,
                               message  |-> out.message,
                               stopped  |-> FALSE,
                               emails   |-> ShownEmails(out.session)]
    /\ UNCHANGED <<pc, job_url, uploaded_file, file_validation, panel,
                   job_page, job_info, job_error, matchVars, rankVars,
                   resumeVars, skillVars, cleanVars, sectionVars, entryVars>>

\* a script run started by anything else (a widget changed, a copy button)
Rerun ==
    /\ pc = "app"
    /\ rendered.run < MaxRuns
    /\ rendered' = [run      |-> rendered.run + 1,
                    clicked  |-> "none",
                    multiple |-> rendered.multiple,
                    message  |-> <<>>,
                    stopped  |-> FALSE,
                    emails   |-> ShownEmails(session_state)]
    /\ UNCHANGED <<pc, session_state, job_url, uploaded_file, file_validation,
                   panel, job_page, job_info, job_error, matchVars, rankVars,
                   resumeVars, skillVars, cleanVars, sectionVars, entryVars>>

\* a script run without an API key: main returns in the sidebar
RunWithoutApiKey ==
    /\ pc = "app"
    /\ rendered.run < MaxRuns
    /\ rendered' = [run      |-> rendered.run + 1,
                    clicked  |-> "none",
                    multiple |-> rendered.multiple,
                    message  |-> MissingKeyError,
                    stopped  |-> TRUE,
                    emails   |-> <<>>]
    /\ UNCHANGED <<pc, session_state, job_url, uploaded_file, file_validation,
                   panel, job_page, job_info, job_error, matchVars, rankVars,
                   resumeVars, skillVars, cleanVars, sectionVars, entryVars>>

NextApp == StartProcessing \/ GenerateEmail \/ Rerun \/ RunWithoutApiKey

SpecApp == InitApp /\ [][NextApp]_vars

\* the step is a script run in which the named button was clicked
Clicked(button) == rendered'.clicked = button

\* the generate run ended without an exception reaching main
GeneratedWithoutError == Clicked("generate") /\ rendered'.message = GenerationDone

\* C28 as stated: a processing run, successful or failed, never changes
\* session generated_email, and an e-mail generated before stays stored and
\* is displayed by every processing or generation run until a generation
\* without error overwrites it.
C28_StoredAndDisplayed ==
    [][(Clicked("process") \/ Clicked("generate")) =>
          /\ Clicked("process") =>
                session_state'.generated_email = session_state.generated_email
          /\ (session_state.generated_email # Unset /\ ~GeneratedWithoutError) =>
                /\ session_state'.generated_email = session_state.generated_email
                /\ rendered'.emails = session_state.generated_email.versions]_vars

\* C28, amended: a processing run, successful or failed, never changes
\* session generated_email; an e-mail generated before stays stored until a
\* generation that raises nothing to main overwrites it, and it is displayed
\* by every such run that main does not leave early, while a run that main
\* leaves early (a failed processing run) displays no e-mail.
C28_StoredAndDisplayedUnlessStopped ==
    [][(Clicked("process") \/ Clicked("generate")) =>
          /\ Clicked("process") =>
                session_state'.generated_email = session_state.generated_email
          /\ (session_state.generated_email # Unset /\ ~GeneratedWithoutError) =>
                /\ session_state'.generated_email = session_state.generated_email
                /\ rendered'.emails =
                       IF rendered'.stopped THEN <<>>
                       ELSE session_state.generated_email.versions]_vars

\* a successful processing run has replaced the job and the résumé, and the
\* e-mail generated from the earlier ones is on display
C28_Witness ==
    /\ pc = "app"
    /\ rendered.clicked = "process"
    /\ rendered.message = ProcessingDone
    /\ rendered.emails # <<>>
    /\ rendered.emails = session_state.generated_email.versions
    /\ rendered.emails[1].generated_from.job_data # session_state.job_data
    /\ rendered.emails[1].generated_from.resume_data # session_state.resume_data

\* C29: in a processing run, if the input validation or the job extraction
\* fails, session job_data and resume_data keep their values; if the job
\* extraction succeeds and the résumé parsing fails, job_data is the new
\* posting and resume_data keeps its value.
C29_PartialUpdate ==
    [][Clicked("process") =>
          /\ (rendered'.stopped /\ rendered'.message # ResumeFailure) =>
                /\ session_state'.job_data = session_state.job_data
                /\ session_state'.resume_data = session_state.resume_data
          /\ rendered'.message = ResumeFailure =>
                /\ session_state'.job_data = JobData(job_url', rendered'.run)
                /\ session_state'.resume_data = session_state.resume_data]_vars

\* after a run whose résumé parsing failed, the session holds the job of this
\* submission next to the résumé of an earlier one, and the generate button
\* is offered
C29_Witness ==
    /\ pc = "app"
    /\ rendered.message = ResumeFailure
    /\ session_state.job_data # Unset
    /\ session_state.resume_data # Unset
    /\ session_state.job_data.run = rendered.run
    /\ session_state.resume_data.run < rendered.run

---------------------------------------------------------------------------
(* The operations together                                                 *)

Init ==
    InitMatch \/ InitRank \/ InitClean \/ InitSkills \/ InitResume \/ InitJob
    \/ InitLevel \/ InitContact \/ InitUpload \/ InitSections \/ InitEntries
    \/ InitWhole \/ InitPanel \/ InitApp

Next ==
    NextMatch \/ NextRank \/ NextClean \/ NextSkills \/ NextResume \/ NextJob
    \/ NextLevel \/ NextUpload \/ NextSections \/ NextEntries \/ NextPanel
    \/ NextApp

Spec == Init /\ [][Next]_vars

=============================================================================
